---- MODULE Spec2Model ----
(***************************************************************************)
(* Model of the car-game server: one GameRoom (server/game/gameRoom.ts),   *)
(* its PhysicsEngine (server/game/physicsEngine.ts), the part of the       *)
(* RoomManager that registers and removes it (server/game/roomManager.ts)  *)
(* and the SocketHandler entry points that route client messages to it.    *)
(*                                                                         *)
(* Time is an integer clock `now`; one unit is one period of the physics   *)
(* interval.  Positions are cells of a one-dimensional ring track; a       *)
(* track element covers the cells closer to its centre than its radius,    *)
(* as in checkCheckpoints/checkFinishLine.                                 *)
(***************************************************************************)
EXTENDS Integers, Sequences, FiniteSets, TLC

\* ----------------------------------------------------------------------
\* Bounds of the model
\* ----------------------------------------------------------------------
\* largest value of the clock at which a timer may still fire
MaxTime == 6
\* input sequence numbers a client may send are 1..MaxSeq
MaxSeq == 2
\* a respawn request is not enumerated while this many events await broadcast
MaxPending == 1
\* number of inputs the client makes
MaxClientInputs == 4
MaxSteps == 3
\* number of rooms created
MaxRooms == 3

\* ----------------------------------------------------------------------
\* Program constants.  Times are in clock units (one period of the physics
\* interval, 1000/60 ms in the source) and lengths in cells.
\* ----------------------------------------------------------------------
\* length of the client's FIFO of pending inputs (120 in the source)
MAX_PENDING_INPUTS == 2
\* entries kept in a leaderboard (100 in the source)
MAX_LEADERBOARD_ENTRIES == 2
\* length of a room code (6 in the source)
ROOM_CODE_LENGTH == 2
MIN_PLAYERS_TO_START == 1
COUNTDOWN_SECONDS == 3
\* 60000 ms in the source; here one lap of the track at full speed
FINISH_GRACE_PERIOD == 3
\* 20 px per tick in the source; here one cell per tick
MAX_SPEED == 1
\* period of the physics interval (60 Hz)
PHYSICS_DELTA == 1
\* period of the broadcast interval (20 Hz): three physics periods
STATE_BROADCAST_INTERVAL == 3

Players == {"p1", "p2"}

\* the characters of generateRoomCode (a part of them), characters it leaves
\* out, and lower-case letters a client may type
RoomCodeChars == {"A", "B", "2"}
ConfusingChars == {"I", "O", "0", "1"}
ToUpperCaseChar(c) == IF c = "a" THEN "A" ELSE IF c = "b" THEN "B" ELSE c
\* String.prototype.toUpperCase
ToUpperCase(str) == [i \in 1..Len(str) |-> ToUpperCaseChar(str[i])]
\* lap times
LapTimes == {1, 2, 3}
\* nicknames of the players that complete laps, and String.toLowerCase
Nicknames == {<<"A", "l">>, <<"a", "l">>, <<"B", "o">>, <<"C", "y">>}
ToLowerCaseChar(c) == IF c = "A" THEN "a" ELSE IF c = "L" THEN "l"
                      ELSE IF c = "B" THEN "b" ELSE IF c = "C" THEN "c" ELSE c
ToLowerCase(str) == [i \in 1..Len(str) |-> ToLowerCaseChar(str[i])]

\* the values of generateUUID in the order they are generated (a UUID holds
\* "-", a room code does not)
RoomIds == <<<<"-", "x">>, <<"-", "y">>, <<"-", "z">>, <<"-", "w">>>>
NoRoom == <<>>
\* TrackManager.trackMetadata, and the track ids a client may ask for ("" is
\* no trackId)
TrackList == <<"oval", "eight">>
RequestedTracks == {"", "oval", "eight", "gone"}
NoPlayer == "none"

\* settings of the room (GameSettings)
MaxPlayersSetting == 2
LapCountSetting == 1

\* The track: a wrap-around ring of TrackWidth cells; the spawn lies on the
\* finish element, the two checkpoints (sorted by checkpointIndex) follow.
TrackWidth == 3
TrackWrapAround == TRUE
SpawnElements == <<0>>
CheckpointElements == <<1, 2>>
FinishElement == 0
\* max(width, height) / 2 of checkpoint and finish elements
ElementRadius == 1

NoInput == [sequence |-> 0, accelerate |-> FALSE, respawn |-> FALSE, present |-> FALSE]

VARIABLES
  state,            \* GameRoom.state
  hostId,           \* GameRoom.hostId
  settings,         \* GameRoom.settings (the fields the room reads)
  players,          \* GameRoom.players, in Map insertion order
  cars,             \* GameRoom.cars, in Map insertion order
  gameState,        \* GameRoom.gameState
  results,          \* GameRoom.results
  physCars,         \* PhysicsEngine.cars, in Map insertion order
  timers,           \* gameLoop, broadcastLoop, countdownTimer handles and the race-start timeout
  listening,        \* GameRoom.eventListeners is non-empty
  pendingEvents,    \* GameRoom.pendingEvents
  stateSequence,    \* GameRoom.stateSequence
  registered,       \* the room is in RoomManager.rooms / roomsByCode
  playerRooms,      \* players that RoomManager.playerRooms maps to this room
  now,              \* Date.now()
  emitted,          \* what the last step passed to GameRoom.emit, in order
  reply,            \* error message the last step sent to the requesting socket
  hist,             \* history of the run, read only by the properties
  env,              \* the client traffic the run enumerates (never changes)
  sessions,         \* SocketHandler: the sessions whose socket has disconnected,
                    \* those with a pending disconnect timeout, and those whose
                    \* client has connected again
  manager,          \* RoomManager.rooms (id -> code and track of the room) and
                    \* RoomManager.roomsByCode (code -> id), the number of ids
                    \* generated, and what the last createRoom returned
  leaderboard,      \* LeaderboardManager for one track: the cached
                    \* TrackLeaderboard.bestLapTimes, the stored one, the calls
                    \* of submitLapTime that wait for storage.read, and the
                    \* last submission made
  compared,         \* one car state and input given to both the client's
                    \* simulateStep and the server's updateCar with
                    \* Engine.update, and what each made of it
  storage,          \* StorageService: locks (per key, the writer whose promise
                    \* is in the Map), the position of every call of write,
                    \* the key it writes, the writer whose promise it awaits,
                    \* and per key the content of the temp file and the file
  client,           \* clientPrediction: pendingInputs, lastConfirmedSequence,
                    \* currentInput (its sequence, 0 for null) and the number of
                    \* steps simulateStep made of predictedState, and
                    \* InputHandler's inputSequence, of one player's client
  other             \* a second room of the RoomManager: whether it is in
                    \* RoomManager.rooms, its players in Map insertion order, and
                    \* the players that RoomManager.playerRooms maps to it;
                    \* lingering: the sessions mapped to it whose socket is
                    \* still in the socket.io channel of the first room

vars == <<state, hostId, settings, players, cars, gameState, results, physCars,
          timers, listening, pendingEvents, stateSequence, registered,
          playerRooms, now, emitted, reply, hist, env, client, other, sessions,
          manager, leaderboard, compared, storage>>

\* ----------------------------------------------------------------------
\* Helpers for Maps kept as sequences of records in insertion order
\* ----------------------------------------------------------------------
Min(a, b) == IF a < b THEN a ELSE b
Max(a, b) == IF a > b THEN a ELSE b
Abs(a) == IF a < 0 THEN -a ELSE a

RECURSIVE SumSeq(_)
SumSeq(s) == IF s = <<>> THEN 0 ELSE Head(s) + SumSeq(Tail(s))

\* Map.has on the key field k
HasKey(m, k, id) == \E i \in 1..Len(m) : m[i][k] = id
\* position of the key in insertion order (the key is present)
KeyIndex(m, k, id) == CHOOSE i \in 1..Len(m) : m[i][k] = id
\* Map.get
GetKey(m, k, id) == m[KeyIndex(m, k, id)]
\* Map.delete
DeleteKey(m, k, id) == SelectSeq(m, LAMBDA r : r[k] # id)
\* replace the value stored under the key
PutKey(m, k, id, r) == [i \in 1..Len(m) |-> IF m[i][k] = id THEN r ELSE m[i]]

HasPlayer(id) == HasKey(players, "id", id)
\* the sessions with a live socket, the only ones that send requests
Connected == Players \ sessions.gone
HasCar(cs, id) == HasKey(cs, "playerId", id)
GetCar(cs, id) == GetKey(cs, "playerId", id)
PutCar(cs, id, c) == PutKey(cs, "playerId", id, c)

\* GameRoom.emit: listeners receive the message; with no listener nothing happens
Emit(out, msg) == IF listening THEN Append(out, msg) ELSE out
\* a message: its type, the player it is about, two numbers of its payload
\* and, for game_state, the snapshot (a one-element sequence)
Msg(t, p, a, b) == [type |-> t, playerId |-> p, a |-> a, b |-> b, snapshot |-> <<>>]
NoReply == "none"

\* ----------------------------------------------------------------------
\* Initial state: the room right after RoomManager.createRoom and
\* SocketHandler.handleCreateRoom, with the creator as host and only member
\* ----------------------------------------------------------------------
InitGameState == [phase |-> "waiting", countdown |-> 0, raceStartTime |-> 0,
                  elapsedTime |-> 0, finishedPlayers |-> <<>>]

\* interval handles are "null", "set" (running) or "cleared" (the field still
\* holds a handle whose interval was cleared); startRace is the pending
\* race-start timeout; nextBroadcast is the clock value at which the
\* broadcast interval is due next
NoTimers == [gameLoop |-> "null", broadcastLoop |-> "null",
             countdownTimer |-> "null", startRace |-> FALSE, nextBroadcast |-> 0]

InitHist ==
  [firstFinish |-> -1,                        \* race time at which the first car finished
   finished |-> {},                           \* players whose car has finished in this race
   maxSeq |-> [p \in Players |-> 0],          \* highest sequence of the inputs that a tick
                                              \* applied to the player's car
   progress |-> [p \in Players |-> <<>>],     \* events of the car's current lap, a lap
                                              \* being written as checkpoint number N
   awaySince |-> [p \in Players |-> TRUE],    \* the car was seen outside the finish
                                              \* radius by a tick since its last lap
   snapshots |-> 0]                           \* number of snapshots created

\* Traffic enumerated by a run: whether join, leave and start requests are
\* sent after the game was started, whether respawn requests are sent, the
\* largest input sequence number sent, whether the accelerator is released,
\* whether the room may have been created with one lap more, whether it
\* was created private, and whether the rooms may have been created for one
\* player only or without mid-race joins.
Traffic == [requests : BOOLEAN, respawn : BOOLEAN, maxSeq : 1..MaxSeq, coast : BOOLEAN,
            longRace : BOOLEAN, privateRoom : BOOLEAN, strict : BOOLEAN]

\* no step was compared yet
NoVector == [x |-> 0, y |-> 0, rotation |-> 0, vx |-> 0, vy |-> 0,
             angularVelocity |-> 0]
NotCompared == [stepped |-> FALSE, car |-> NoVector,
                input |-> [accelerate |-> FALSE, brake |-> FALSE, steerLeft |-> FALSE,
                           steerRight |-> FALSE, steerValue |-> 0, nitro |-> FALSE],
                nitroAmount |-> 0, predicted |-> NoVector, integrated |-> NoVector]

\* the calls of StorageService.write in flight and the keys they write
Writers == {"w1", "w2", "w3"}
StorageKeys == {"leaderboards:oval", "leaderboards:eight"}

\* the StorageService after construction, with no call of write
InitStorage ==
  [locks |-> [k \in StorageKeys |-> "none"],
   pc |-> [w \in Writers |-> "idle"],
   key |-> [w \in Writers |-> "none"],
   awaiting |-> [w \in Writers |-> "none"],
   temp |-> [k \in StorageKeys |-> "none"],
   file |-> [k \in StorageKeys |-> "none"]]

\* the LeaderboardManager after construction, nothing stored for the track
NoSubmission == [replaced |-> FALSE, otherCase |-> FALSE, full |-> FALSE]
InitLeaderboard == [cached |-> FALSE, cache |-> <<>>, stored |-> FALSE,
                    storage |-> <<>>, calls |-> {}, last |-> NoSubmission]

\* the RoomManager before its first createRoom
InitManager == [rooms |-> <<>>, roomsByCode |-> <<>>, generated |-> 0,
                created |-> NoRoom]

\* every session is connected
NoSessions == [gone |-> {}, evictions |-> {}, reconnected |-> {}]

\* the client before its first input
InitClient == [inputSequence |-> 0, pendingInputs |-> <<>>, lastConfirmedSequence |-> 0,
               currentInput |-> 0, steps |-> 0]

\* no second room
NoOtherRoom == [registered |-> FALSE, players |-> <<>>, mapped |-> {},
                lingering |-> {}]

InitRoom ==
  /\ client = InitClient
  /\ state = "waiting"
  /\ hostId = "p1"
  /\ players = <<[id |-> "p1", isReady |-> FALSE, isConnected |-> TRUE]>>
  /\ sessions = NoSessions
  /\ manager = InitManager
  /\ leaderboard = InitLeaderboard
  /\ compared = NotCompared
  /\ storage = InitStorage
  /\ playerRooms = {"p1"}
  /\ settings \in [maxPlayers : IF env.strict THEN {1, MaxPlayersSetting}
                                               ELSE {MaxPlayersSetting},
                   isPrivate : {env.privateRoom},
                   lapCount : IF env.longRace
                                THEN {LapCountSetting, LapCountSetting + 1}
                                ELSE {LapCountSetting},
                   allowMidRaceJoin : IF env.requests \/ env.strict
                                        THEN BOOLEAN ELSE {TRUE}]
  /\ cars = <<>>
  /\ gameState = InitGameState
  /\ results = <<>>
  /\ physCars = <<>>
  /\ timers = NoTimers
  /\ listening = TRUE
  /\ pendingEvents = <<>>
  /\ stateSequence = 0
  /\ registered = TRUE
  /\ now = 0
  /\ emitted = <<>>
  /\ reply = NoReply
  /\ hist = InitHist

\* players come, go and ask for a start at any time and hold the accelerator
Init ==
  /\ env = [requests |-> TRUE, respawn |-> FALSE, maxSeq |-> 1,
            coast |-> FALSE, longRace |-> FALSE, privateRoom |-> FALSE, strict |-> FALSE]
  /\ InitRoom
  /\ other = NoOtherRoom

\* the players present at the start drive and number their inputs freely
InitInput ==
  /\ env = [requests |-> FALSE, respawn |-> FALSE, maxSeq |-> MaxSeq,
            coast |-> FALSE, longRace |-> FALSE, privateRoom |-> FALSE, strict |-> FALSE]
  /\ InitRoom
  /\ other = NoOtherRoom

\* the players present at the start drive and ask for respawns
InitRespawn ==
  /\ env = [requests |-> FALSE, respawn |-> TRUE, maxSeq |-> 1,
            coast |-> FALSE, longRace |-> FALSE, privateRoom |-> FALSE, strict |-> FALSE]
  /\ InitRoom
  /\ other = NoOtherRoom

\* the players present at the start press and release the accelerator
InitCoast ==
  /\ env = [requests |-> FALSE, respawn |-> FALSE, maxSeq |-> 1,
            coast |-> TRUE, longRace |-> FALSE, privateRoom |-> FALSE, strict |-> FALSE]
  /\ InitRoom
  /\ other = NoOtherRoom

\* the players present at the start drive a race of one or two laps
InitLaps ==
  /\ env = [requests |-> FALSE, respawn |-> FALSE, maxSeq |-> 1, coast |-> FALSE,
            longRace |-> TRUE, privateRoom |-> FALSE, strict |-> FALSE]
  /\ InitRoom
  /\ other = NoOtherRoom

\* a second room, created by p2, exists beside the room of p1; players
\* move between the two while the room of p1 is waiting
InitRooms ==
  /\ env = [requests |-> FALSE, respawn |-> FALSE, maxSeq |-> 1,
            coast |-> FALSE, longRace |-> FALSE, privateRoom |-> FALSE, strict |-> FALSE]
  /\ InitRoom
  /\ other = [registered |-> TRUE, players |-> <<"p2">>, mapped |-> {"p2"},
              lingering |-> {}]

\* p1 is in its room; a second room does not exist yet
InitCreate ==
  /\ env = [requests |-> FALSE, respawn |-> FALSE, maxSeq |-> 1,
            coast |-> FALSE, longRace |-> FALSE, privateRoom |-> FALSE, strict |-> FALSE]
  /\ InitRoom
  /\ other = NoOtherRoom

\* the room of p1 is private; p2 asks to join it by its id
InitPrivate ==
  /\ env = [requests |-> FALSE, respawn |-> FALSE, maxSeq |-> 1,
            coast |-> FALSE, longRace |-> FALSE, privateRoom |-> TRUE, strict |-> FALSE]
  /\ InitRoom
  /\ other = NoOtherRoom

\* two rooms, of p1 and of p2, created for one or two players, with or
\* without mid-race joins; join requests come at any time
InitFull ==
  /\ env = [requests |-> FALSE, respawn |-> FALSE, maxSeq |-> 1, coast |-> FALSE,
            longRace |-> FALSE, privateRoom |-> FALSE, strict |-> TRUE]
  /\ InitRoom
  /\ other = [registered |-> TRUE, players |-> <<"p2">>, mapped |-> {"p2"},
              lingering |-> {}]

\* the sockets of the players disconnect and their clients connect again
InitSessions ==
  /\ env = [requests |-> FALSE, respawn |-> FALSE, maxSeq |-> 1, coast |-> FALSE,
            longRace |-> FALSE, privateRoom |-> FALSE, strict |-> FALSE]
  /\ InitRoom
  /\ other = NoOtherRoom

\* ----------------------------------------------------------------------
\* Cars
\* ----------------------------------------------------------------------
\* createInitialCarState
createInitialCarState(playerId, position) ==
  [playerId |-> playerId, position |-> position, velocity |-> 0,
   lap |-> 0, checkpoint |-> 0, lapTimes |-> <<>>, finished |-> FALSE,
   finishTime |-> 0, position_rank |-> 0, lastInputSequence |-> 0]

\* PhysicsEngine.addCar: the physics state built from a room car
\* (Map.set keeps the place of a key that is already present)
NewPhysCar(car) ==
  [playerId |-> car.playerId, x |-> car.position, v |-> 0, input |-> NoInput,
   lastCheckpoint |-> 0, lap |-> 0, passedFinishLine |-> FALSE,
   lastInputSequence |-> 0]

addCar(pcs, car) ==
  IF HasCar(pcs, car.playerId)
    THEN PutCar(pcs, car.playerId, NewPhysCar(car))
    ELSE Append(pcs, NewPhysCar(car))

\* PhysicsEngine.initialize: reset, then addCar for every room car
RECURSIVE initialize(_, _)
initialize(pcs, cs) ==
  IF cs = <<>> THEN pcs ELSE initialize(addCar(pcs, Head(cs)), Tail(cs))

\* GameRoom.createCarForPlayer: the car at spawn cars.size modulo the number
\* of spawns, set in the room's cars and added to the physics engine
SpawnPosition(spawnIndex) == SpawnElements[(spawnIndex % Len(SpawnElements)) + 1]

createCarForPlayer(w, playerId) ==
  IF Len(SpawnElements) = 0 THEN w
  ELSE LET car == createInitialCarState(playerId, SpawnPosition(Len(w.cars)))
       IN [w EXCEPT
             !.cars = IF HasCar(w.cars, playerId)
                        THEN PutCar(w.cars, playerId, car)
                        ELSE Append(w.cars, car),
             !.physCars = addCar(w.physCars, car)]

\* ----------------------------------------------------------------------
\* Player management
\* ----------------------------------------------------------------------
\* GameRoom.shutdown: clears the three interval handles it holds (the handles
\* stay non-null), resets the physics engine and drops the listeners.  The
\* race-start timeout is not held in any field.
clearHandle(h) == IF h = "null" THEN "null" ELSE "cleared"

shutdownTimers(t) ==
  [t EXCEPT !.gameLoop = clearHandle(@), !.broadcastLoop = clearHandle(@),
            !.countdownTimer = clearHandle(@)]

\* GameRoom.removePlayer on a member: the values of the fields it writes
removePlayer(p) ==
  LET ps == DeleteKey(players, "id", p)
  IN [players |-> ps,
      cars |-> DeleteKey(cars, "playerId", p),
      physCars |-> DeleteKey(physCars, "playerId", p),
      hostId |-> IF p = hostId /\ Len(ps) > 0 THEN ps[1].id ELSE hostId]

\* SocketHandler.handleLeaveRoom -> RoomManager.leaveRoom -> removePlayer,
\* and removeRoom -> shutdown when the room became empty
LeaveRoom(p) ==
  /\ registered /\ p \in playerRooms
  /\ LET r == removePlayer(p)
         empty == Len(r.players) = 0
     IN /\ players' = r.players
        /\ cars' = r.cars
        /\ hostId' = r.hostId
        /\ physCars' = IF empty THEN <<>> ELSE r.physCars
        /\ timers' = IF empty THEN shutdownTimers(timers) ELSE timers
        /\ listening' = IF empty THEN FALSE ELSE listening
        /\ registered' = ~empty
        /\ emitted' = Emit(<<>>, Msg("player_left", p, 0, 0))
  /\ playerRooms' = playerRooms \ {p}
  /\ reply' = NoReply
  /\ UNCHANGED <<env, storage, compared, leaderboard, manager, sessions, client, other, state, settings, gameState, results, pendingEvents,
                 stateSequence, now, hist>>

\* isFull letting one player more in
isFullAboveMax(ps) == Len(ps) > settings.maxPlayers

\* GameRoom.isFull, for the players of a room
isFull(ps) == Len(ps) >= settings.maxPlayers

\* RoomManager.leaveRoom without its effect
leavePreviousSkipped(o, p) == o

\* RoomManager.leaveRoom for a player mapped to the second room: the room
\* loses the player and, if that empties it, is removed
leavePrevious(o, p) ==
  IF o.registered /\ p \in o.mapped
    THEN LET ps == SelectSeq(o.players, LAMBDA q : q # p)
         IN [o EXCEPT !.registered = Len(ps) # 0, !.players = ps,
                        !.mapped = @ \ {p}]
    ELSE o

\* SocketHandler.handleJoinRoom -> RoomManager.joinRoom -> GameRoom.addPlayer.
\* A sender that is mapped to a room leaves it first (this room or the second
\* one, removed and shut down if that empties it) and is then added.
JoinRoom(p) ==
  /\ registered
  /\ IF isFull(players)
        \/ (state = "racing" /\ ~settings.allowMidRaceJoin)
     THEN /\ reply' = "JOIN_FAILED"
          /\ emitted' = <<>>
          /\ UNCHANGED <<env, storage, compared, leaderboard, manager, sessions, client, other, state, hostId, settings, players, cars, gameState,
                         results, physCars, timers, listening, pendingEvents,
                         stateSequence, registered, playerRooms, now, hist>>
     ELSE LET member == p \in playerRooms
              r == IF member THEN removePlayer(p)
                   ELSE [players |-> players, cars |-> cars,
                         physCars |-> physCars, hostId |-> hostId]
              removed == member /\ Len(r.players) = 0
              lst == IF removed THEN FALSE ELSE listening
              w0 == [cars |-> r.cars,
                     physCars |-> IF removed THEN <<>> ELSE r.physCars]
              \* addPlayer returns the player that the room already has
              has == HasKey(r.players, "id", p)
              w1 == IF ~has /\ state = "racing" /\ settings.allowMidRaceJoin
                      THEN createCarForPlayer(w0, p) ELSE w0
          IN /\ players' = IF has THEN r.players
                            ELSE Append(r.players, [id |-> p, isReady |-> FALSE,
                                                    isConnected |-> TRUE])
             /\ hostId' = r.hostId
             /\ cars' = w1.cars
             /\ physCars' = w1.physCars
             /\ timers' = IF removed THEN shutdownTimers(timers) ELSE timers
             /\ listening' = lst
             /\ registered' = ~removed
             /\ playerRooms' = playerRooms \cup {p}
             /\ emitted' = (IF member /\ listening
                              THEN <<Msg("player_left", p, 0, 0)>> ELSE <<>>)
                           \o (IF lst /\ ~has
                                THEN <<Msg("player_joined", p, 0, 0)>> ELSE <<>>)
             /\ reply' = NoReply
             /\ hist' = IF ~has /\ HasCar(w1.cars, p)
                          THEN [hist EXCEPT !.progress[p] = <<>>, !.awaySince[p] = TRUE]
                          ELSE hist
             /\ other' = [leavePrevious(other, p) EXCEPT !.mapped = @ \ {p},
                                                         !.lingering = @ \ {p}]
             /\ UNCHANGED <<env, storage, compared, leaderboard, manager, sessions, client, state, settings, gameState, results,
                            pendingEvents, stateSequence, now>>

\* SocketHandler.handleSetReady -> GameRoom.setPlayerReady
SetReady(p, ready) ==
  /\ registered /\ p \in playerRooms /\ HasPlayer(p)
  /\ players' = PutKey(players, "id", p,
                       [GetKey(players, "id", p) EXCEPT !.isReady = ready])
  /\ emitted' = Emit(<<>>, Msg("player_ready", p, IF ready THEN 1 ELSE 0, 0))
  /\ reply' = NoReply
  /\ UNCHANGED <<env, storage, compared, leaderboard, manager, sessions, client, other, state, hostId, settings, cars, gameState, results, physCars,
                 timers, listening, pendingEvents, stateSequence, registered,
                 playerRooms, now, hist>>

\* RoomManager.cleanupIdleRooms on this room: an empty room, or a waiting room
\* idle for longer than ROOM_IDLE_TIMEOUT, loses its player mappings and is
\* removed and shut down.  RoomManager.shutdown (SIGTERM) does the same to
\* every room in whatever state it is.
RemoveRoom ==
  /\ registered
  /\ registered' = FALSE
  /\ playerRooms' = {}
  /\ timers' = shutdownTimers(timers)
  /\ physCars' = <<>>
  /\ listening' = FALSE
  /\ emitted' = <<>>
  /\ reply' = NoReply
  /\ UNCHANGED <<env, storage, compared, leaderboard, manager, sessions, client, other, state, hostId, settings, players, cars, gameState, results,
                 pendingEvents, stateSequence, now, hist>>

CleanupIdleRooms ==
  /\ (Len(players) = 0 \/ state = "waiting")
  /\ RemoveRoom

ServerShutdown == RemoveRoom

\* ----------------------------------------------------------------------
\* Game flow: start, countdown, race start
\* ----------------------------------------------------------------------
readyCount(ps) == Cardinality({i \in 1..Len(ps) : ps[i].isReady})

\* canStart without the test of the room state
canStartAnyState ==
  /\ Len(players) >= MIN_PLAYERS_TO_START
  /\ readyCount(players) >= MIN_PLAYERS_TO_START

\* canStart without the count of ready players
canStartUnready ==
  /\ state = "waiting"
  /\ Len(players) >= MIN_PLAYERS_TO_START

\* GameRoom.canStart
canStart ==
  /\ state = "waiting"
  /\ Len(players) >= MIN_PLAYERS_TO_START
  /\ readyCount(players) >= MIN_PLAYERS_TO_START

\* the loop of startGame that creates a car for every ready player
RECURSIVE createCarsForReady(_, _)
createCarsForReady(w, ps) ==
  IF ps = <<>> THEN w
  ELSE createCarsForReady(
         IF Head(ps).isReady THEN createCarForPlayer(w, Head(ps).id) ELSE w,
         Tail(ps))

\* SocketHandler.handleStartGame -> GameRoom.startGame
StartGame(p) ==
  /\ registered /\ p \in playerRooms
  /\ IF hostId # p THEN
       /\ reply' = "NOT_HOST"
       /\ emitted' = <<>>
       /\ UNCHANGED <<state, cars, gameState, physCars, timers>>
     ELSE IF ~canStart THEN
       /\ reply' = "CANNOT_START"
       /\ emitted' = <<>>
       /\ UNCHANGED <<state, cars, gameState, physCars, timers>>
     ELSE
       LET w == createCarsForReady([cars |-> cars, physCars |-> physCars], players)
       IN /\ state' = "countdown"
          /\ gameState' = [gameState EXCEPT !.phase = "countdown",
                                            !.countdown = COUNTDOWN_SECONDS]
          /\ cars' = w.cars
          /\ physCars' = initialize(<<>>, w.cars)
          /\ emitted' = Emit(<<>>, Msg("game_starting", NoPlayer, COUNTDOWN_SECONDS, Len(w.cars)))
          /\ timers' = [timers EXCEPT !.countdownTimer = "set"]
          /\ reply' = NoReply
  /\ UNCHANGED <<env, storage, compared, leaderboard, manager, sessions, client, other, hostId, settings, players, results, listening, pendingEvents,
                 stateSequence, registered, playerRooms, now, hist>>

\* the countdown callback stopping only below 0
CountdownTickBelowZero ==
  /\ timers.countdownTimer = "set"
  /\ LET c == gameState.countdown - 1
     IN /\ gameState' = [gameState EXCEPT !.countdown = c]
        /\ emitted' = Emit(<<>>, Msg("countdown", NoPlayer, c, 0))
        /\ timers' = IF c < 0
                       THEN [timers EXCEPT !.countdownTimer = "null", !.startRace = TRUE]
                       ELSE timers
  /\ now' = now + 1
  /\ reply' = NoReply
  /\ UNCHANGED <<env, storage, compared, leaderboard, manager, sessions, client, other, state, hostId, settings, players, cars, results, physCars,
                 listening, pendingEvents, stateSequence, registered,
                 playerRooms, hist>>

\* the interval callback installed by startGame (one firing)
CountdownTick ==
  /\ timers.countdownTimer = "set"
  /\ LET c == gameState.countdown - 1
     IN /\ gameState' = [gameState EXCEPT !.countdown = c]
        /\ emitted' = Emit(<<>>, Msg("countdown", NoPlayer, c, 0))
        /\ timers' = IF c <= 0
                       THEN [timers EXCEPT !.countdownTimer = "null", !.startRace = TRUE]
                       ELSE timers
  /\ now' = now + 1
  /\ reply' = NoReply
  /\ UNCHANGED <<env, storage, compared, leaderboard, manager, sessions, client, other, state, hostId, settings, players, cars, results, physCars,
                 listening, pendingEvents, stateSequence, registered,
                 playerRooms, hist>>

\* GameRoom.startRace, run by the 500 ms timeout set at the 0 count
StartRace ==
  /\ timers.startRace
  /\ state' = "racing"
  /\ gameState' = [gameState EXCEPT !.phase = "racing", !.raceStartTime = now]
  /\ emitted' = Emit(<<>>, Msg("game_started", NoPlayer, now, 0))
  /\ timers' = [timers EXCEPT !.startRace = FALSE, !.gameLoop = "set",
                              !.broadcastLoop = "set",
                              !.nextBroadcast = now + STATE_BROADCAST_INTERVAL]
  /\ reply' = NoReply
  /\ UNCHANGED <<env, storage, compared, leaderboard, manager, sessions, client, other, hostId, settings, players, cars, results, physCars, listening,
                 pendingEvents, stateSequence, registered, playerRooms, now, hist>>

\* ----------------------------------------------------------------------
\* Physics engine
\* ----------------------------------------------------------------------
Event(t, p, n) == [type |-> t, playerId |-> p, n |-> n]

\* the % operator of the source language (sign of the dividend)
JsMod(a, b) == IF a >= 0 THEN a % b ELSE -((-a) % b)

\* PhysicsEngine.updateCar: nothing without an input; otherwise the engine
\* force raises the speed up to MAX_SPEED and drag lowers it
updateCar(c) ==
  IF ~c.input.present THEN c
  ELSE [c EXCEPT !.v = IF c.input.accelerate THEN Min(c.v + 1, MAX_SPEED)
                                              ELSE Max(c.v - 1, 0)]

\* Matter.Engine.update: the position advances by the velocity
engineUpdate(c) == [c EXCEPT !.x = c.x + c.v]

\* applyWrapAround leaving a car that stands on the far edge where it is
applyWrapAroundPastEdge(c) ==
  IF c.x < 0 \/ c.x > TrackWidth
    THEN [c EXCEPT !.x = JsMod(JsMod(c.x, TrackWidth) + TrackWidth, TrackWidth)]
    ELSE c

\* PhysicsEngine.applyWrapAround
applyWrapAround(c) ==
  IF c.x < 0 \/ c.x >= TrackWidth
    THEN [c EXCEPT !.x = JsMod(JsMod(c.x, TrackWidth) + TrackWidth, TrackWidth)]
    ELSE c

\* PhysicsEngine.checkCheckpoints: [car, events] for one car
checkCheckpoints(c) ==
  LET expectedCheckpoint == c.lastCheckpoint
  IN IF expectedCheckpoint + 1 > Len(CheckpointElements) THEN [car |-> c, events |-> <<>>]
     ELSE IF Abs(c.x - CheckpointElements[expectedCheckpoint + 1]) < ElementRadius
       THEN [car |-> [c EXCEPT !.lastCheckpoint = expectedCheckpoint + 1],
             events |-> <<Event("checkpoint", c.playerId, expectedCheckpoint)>>]
       ELSE [car |-> c, events |-> <<>>]

\* checkFinishLine without the test that all checkpoints were passed
checkFinishLineAnyProgress(c) ==
  LET isNearFinish == Abs(c.x - FinishElement) < ElementRadius
  IN IF isNearFinish /\ ~c.passedFinishLine
       THEN [car |-> [c EXCEPT !.passedFinishLine = TRUE, !.lap = c.lap + 1,
                               !.lastCheckpoint = 0],
             events |-> <<Event("lap", c.playerId, c.lap + 1)>>]
     ELSE IF ~isNearFinish
       THEN [car |-> [c EXCEPT !.passedFinishLine = FALSE], events |-> <<>>]
       ELSE [car |-> c, events |-> <<>>]

\* checkFinishLine crediting the lap without setting the latch and the
\* expected checkpoint
checkFinishLineNoLatch(c) ==
  LET isNearFinish == Abs(c.x - FinishElement) < ElementRadius
      allCheckpointsPassed == c.lastCheckpoint >= Len(CheckpointElements)
  IN IF isNearFinish /\ allCheckpointsPassed /\ ~c.passedFinishLine
       THEN [car |-> [c EXCEPT !.lap = c.lap + 1],
             events |-> <<Event("lap", c.playerId, c.lap + 1)>>]
     ELSE IF ~isNearFinish
       THEN [car |-> [c EXCEPT !.passedFinishLine = FALSE], events |-> <<>>]
       ELSE [car |-> c, events |-> <<>>]

\* PhysicsEngine.checkFinishLine: [car, events] for one car
checkFinishLine(c) ==
  LET isNearFinish == Abs(c.x - FinishElement) < ElementRadius
      allCheckpointsPassed == c.lastCheckpoint >= Len(CheckpointElements)
  IN IF isNearFinish /\ allCheckpointsPassed /\ ~c.passedFinishLine
       THEN [car |-> [c EXCEPT !.passedFinishLine = TRUE, !.lap = c.lap + 1,
                               !.lastCheckpoint = 0],
             events |-> <<Event("lap", c.playerId, c.lap + 1)>>]
     ELSE IF ~isNearFinish
       THEN [car |-> [c EXCEPT !.passedFinishLine = FALSE], events |-> <<>>]
       ELSE [car |-> c, events |-> <<>>]

\* PhysicsEngine.checkTrackProgress: every car in Map order, checkpoint then finish
RECURSIVE checkTrackProgress(_, _, _)
checkTrackProgress(pcs, i, acc) ==
  IF i > Len(pcs) THEN acc
  ELSE LET a == checkCheckpoints(pcs[i])
           b == checkFinishLine(a.car)
       IN checkTrackProgress(pcs, i + 1,
            [cars |-> Append(acc.cars, b.car),
             events |-> acc.events \o a.events \o b.events])

\* PhysicsEngine.update: [cars, events]
physicsUpdate(pcs) ==
  LET moved == [i \in 1..Len(pcs) |-> engineUpdate(updateCar(pcs[i]))]
      wrapped == IF TrackWrapAround
                   THEN [i \in 1..Len(pcs) |-> applyWrapAround(moved[i])]
                   ELSE moved
  IN checkTrackProgress(wrapped, 1, [cars |-> <<>>, events |-> <<>>])

\* PhysicsEngine.syncCarState
syncCarState(car, pcs) ==
  IF ~HasCar(pcs, car.playerId) THEN car
  ELSE LET ps == GetCar(pcs, car.playerId)
       IN [car EXCEPT !.position = ps.x, !.velocity = ps.v,
                      !.checkpoint = ps.lastCheckpoint, !.lap = ps.lap,
                      !.lastInputSequence = ps.lastInputSequence]

\* PhysicsEngine.applyInput
applyInput(pcs, p, input) ==
  IF HasCar(pcs, p)
    THEN PutCar(pcs, p, [GetCar(pcs, p) EXCEPT !.input = input,
                                               !.lastInputSequence = input.sequence])
    ELSE pcs

\* PhysicsEngine.resetCar
resetCar(pcs, p, position) ==
  IF HasCar(pcs, p)
    THEN PutCar(pcs, p, [GetCar(pcs, p) EXCEPT !.x = position, !.v = 0])
    ELSE pcs

\* ----------------------------------------------------------------------
\* The simulation tick of the room
\* ----------------------------------------------------------------------
\* The tick works on a record w of the fields it writes:
\* cars, pendingEvents, gameState, results, out (the emits) and hist.

\* history: the event is appended to the log of the car's current lap; a
\* checkpoint that follows a lap event starts the log of the next lap
NumCheckpoints == Len(CheckpointElements)
LogEvent(h, e) ==
  LET n == IF e.type = "lap" THEN NumCheckpoints ELSE e.n
      old == h.progress[e.playerId]
      base == IF old # <<>> /\ old[Len(old)] = NumCheckpoints THEN <<>> ELSE old
  IN [h EXCEPT !.progress[e.playerId] = Append(base, n)]

\* GameRoom.handlePlayerFinish
handlePlayerFinish(w, playerId, position, totalTime) ==
  IF ~HasCar(w.cars, playerId) \/ ~HasPlayer(playerId) THEN w
  ELSE LET car == GetCar(w.cars, playerId)
       IN [w EXCEPT
             !.cars = PutCar(w.cars, playerId,
                        [car EXCEPT !.finished = TRUE, !.finishTime = totalTime,
                                    !.position_rank = position]),
             !.gameState.finishedPlayers = Append(@, playerId),
             !.results = Append(@, [playerId |-> playerId, position |-> position,
                                    totalTime |-> totalTime, laps |-> car.lapTimes,
                                    finished |-> TRUE]),
             !.out = Emit(@, Msg("player_finished", playerId, position, totalTime)),
             !.hist.firstFinish = IF @ = -1 THEN totalTime ELSE @,
             !.hist.finished = @ \cup {playerId}]

\* handleLapComplete taking the race elapsed time as the time of every lap
handleLapCompleteWholeRace(w, playerId, lap) ==
  IF ~HasCar(w.cars, playerId) THEN w
  ELSE LET car == GetCar(w.cars, playerId)
           nowElapsed == w.gameState.elapsedTime
           actualLapTime == nowElapsed
           w1 == [w EXCEPT
                    !.cars = PutCar(w.cars, playerId,
                               [car EXCEPT !.lap = lap, !.checkpoint = 0,
                                           !.lapTimes = Append(@, actualLapTime)]),
                    !.out = Emit(@, Msg("lap_completed", playerId, lap, actualLapTime))]
       IN IF lap >= settings.lapCount
            THEN handlePlayerFinish(w1, playerId,
                                    Len(w1.gameState.finishedPlayers) + 1,
                                    w1.gameState.elapsedTime)
            ELSE w1

\* GameRoom.handleLapComplete
handleLapComplete(w, playerId, lap) ==
  IF ~HasCar(w.cars, playerId) THEN w
  ELSE LET car == GetCar(w.cars, playerId)
           nowElapsed == w.gameState.elapsedTime
           actualLapTime == nowElapsed - SumSeq(car.lapTimes)
           w1 == [w EXCEPT
                    !.cars = PutCar(w.cars, playerId,
                               [car EXCEPT !.lap = lap, !.checkpoint = 0,
                                           !.lapTimes = Append(@, actualLapTime)]),
                    !.out = Emit(@, Msg("lap_completed", playerId, lap, actualLapTime))]
       IN IF lap >= settings.lapCount
            THEN handlePlayerFinish(w1, playerId,
                                    Len(w1.gameState.finishedPlayers) + 1,
                                    w1.gameState.elapsedTime)
            ELSE w1

\* GameRoom.handleCheckpoint
handleCheckpoint(w, playerId, checkpoint) ==
  IF ~HasCar(w.cars, playerId) THEN w
  ELSE [w EXCEPT
          !.cars = PutCar(w.cars, playerId,
                     [GetCar(w.cars, playerId) EXCEPT !.checkpoint = checkpoint]),
          !.out = Emit(@, Msg("checkpoint_passed", playerId, checkpoint,
                              w.gameState.elapsedTime))]

\* GameRoom.handlePhysicsEvent
handlePhysicsEvent(w, e) ==
  LET w1 == [w EXCEPT !.pendingEvents = Append(@, e), !.hist = LogEvent(@, e)]
  IN IF e.type = "checkpoint" THEN handleCheckpoint(w1, e.playerId, e.n)
     ELSE IF e.type = "lap" THEN handleLapComplete(w1, e.playerId, e.n)
     ELSE w1

RECURSIVE handlePhysicsEvents(_, _)
handlePhysicsEvents(w, es) ==
  IF es = <<>> THEN w
  ELSE handlePhysicsEvents(handlePhysicsEvent(w, Head(es)), Tail(es))

\* the comparator of updateRankings without its last two tests
compareCarsFinishOnly(a, b) ==
  IF a.finished # b.finished THEN (IF a.finished THEN -1 ELSE 1)
  ELSE IF a.finished /\ b.finished THEN a.finishTime - b.finishTime
  ELSE 0

\* the comparator of updateRankings
compareCars(a, b) ==
  IF a.finished # b.finished THEN (IF a.finished THEN -1 ELSE 1)
  ELSE IF a.finished /\ b.finished THEN a.finishTime - b.finishTime
  ELSE IF a.lap # b.lap THEN b.lap - a.lap
  ELSE IF a.checkpoint # b.checkpoint THEN b.checkpoint - a.checkpoint
  ELSE 0

\* Array.prototype.sort with that comparator (stable): the rank of a car is
\* one more than the number of cars sorted before it
rankOf(cs, i) ==
  1 + Cardinality({j \in 1..Len(cs) :
        \/ compareCars(cs[j], cs[i]) < 0
        \/ (compareCars(cs[j], cs[i]) = 0 /\ j < i)})

\* GameRoom.updateRankings
updateRankings(cs) ==
  [i \in 1..Len(cs) |-> [cs[i] EXCEPT !.position_rank = rankOf(cs, i)]]

\* the test of GameRoom.checkRaceCompletion
raceComplete(cs, gs) ==
  /\ Len(gs.finishedPlayers) # 0
  /\ LET first == gs.finishedPlayers[1]
         allFinished == \A i \in 1..Len(cs) : cs[i].finished
         firstTime == IF HasCar(cs, first) THEN GetCar(cs, first).finishTime ELSE 0
         graceTimeExceeded == gs.elapsedTime - firstTime > FINISH_GRACE_PERIOD
     IN allFinished \/ graceTimeExceeded

\* endRace without the loop over the unfinished cars
addUnfinishedSkipped(res, cs) == res

\* the loop of endRace that adds the unfinished cars to the results
RECURSIVE addUnfinished(_, _)
addUnfinished(res, cs) ==
  IF cs = <<>> THEN res
  ELSE addUnfinished(
         IF ~Head(cs).finished /\ HasPlayer(Head(cs).playerId)
           THEN Append(res, [playerId |-> Head(cs).playerId,
                             position |-> Len(res) + 1, totalTime |-> 0,
                             laps |-> Head(cs).lapTimes, finished |-> FALSE])
           ELSE res,
         Tail(cs))

\* endRace clearing only the game loop
stopLoopsGameOnly(t) == [t EXCEPT !.gameLoop = "null"]

\* the head of GameRoom.endRace: both intervals are cleared and their handles nulled
stopLoops(t) == [t EXCEPT !.gameLoop = "null", !.broadcastLoop = "null"]

\* the broadcast interval is running and due
BroadcastDue == timers.broadcastLoop = "set" /\ now >= timers.nextBroadcast

\* GameRoom.updateGame, one firing of the gameLoop interval: the clock
\* advances to the next tick unless the broadcast interval is due first
UpdateGame ==
  /\ timers.gameLoop = "set"
  /\ ~BroadcastDue
  /\ state = "racing"
  /\ now - gameState.raceStartTime < MaxTime
  /\ now' = now + PHYSICS_DELTA
  /\ LET phys == physicsUpdate(physCars)
         w0 == [cars |-> cars, pendingEvents |-> pendingEvents,
                gameState |-> [gameState EXCEPT
                                 !.elapsedTime = now + PHYSICS_DELTA - gameState.raceStartTime],
                results |-> results, out |-> <<>>,
                hist |-> [hist EXCEPT !.maxSeq = [p \in Players |->
                            IF HasCar(physCars, p) /\ GetCar(physCars, p).input.present
                              THEN Max(hist.maxSeq[p], GetCar(physCars, p).input.sequence)
                              ELSE hist.maxSeq[p]]]]
         w1 == handlePhysicsEvents(w0, phys.events)
         synced == [i \in 1..Len(w1.cars) |-> syncCarState(w1.cars[i], phys.cars)]
         ranked == updateRankings(synced)
         done == raceComplete(ranked, w1.gameState)
         final == addUnfinished(w1.results, ranked)
     IN /\ physCars' = phys.cars
        /\ cars' = ranked
        /\ pendingEvents' = w1.pendingEvents
        /\ hist' = [w1.hist EXCEPT !.awaySince = [p \in Players |->
                      IF \E i \in 1..Len(phys.events) :
                           phys.events[i].type = "lap" /\ phys.events[i].playerId = p
                        THEN FALSE
                      ELSE IF HasCar(phys.cars, p)
                              /\ Abs(GetCar(phys.cars, p).x - FinishElement) >= ElementRadius
                        THEN TRUE
                      ELSE w1.hist.awaySince[p]]]
        /\ IF done
             THEN \* GameRoom.endRace
                  /\ state' = "results"
                  /\ gameState' = [w1.gameState EXCEPT !.phase = "finished"]
                  /\ timers' = stopLoops(timers)
                  /\ results' = final
                  /\ emitted' = Emit(w1.out, Msg("race_finished", NoPlayer,
                                                 Len(final), 0))
             ELSE /\ state' = state
                  /\ gameState' = w1.gameState
                  /\ timers' = timers
                  /\ results' = w1.results
                  /\ emitted' = w1.out
  /\ reply' = NoReply
  /\ UNCHANGED <<env, storage, compared, leaderboard, manager, sessions, client, other, hostId, settings, players, listening, stateSequence,
                 registered, playerRooms>>

\* ----------------------------------------------------------------------
\* Input, respawn and broadcast
\* ----------------------------------------------------------------------
Inputs ==
  [sequence : 1..MaxSeq, accelerate : BOOLEAN, respawn : BOOLEAN, present : {TRUE}]

\* GameRoom.handleRespawn
handleRespawn(w, playerId) ==
  IF ~HasCar(w.cars, playerId) THEN w
  ELSE LET car == GetCar(w.cars, playerId)
           checkpointIndex == Max(0, car.checkpoint - 1)
           found == checkpointIndex + 1 <= Len(CheckpointElements)
           position == CheckpointElements[checkpointIndex + 1]
       IN IF car.finished THEN w
          ELSE [cars |-> IF found
                           THEN PutCar(w.cars, playerId,
                                  [car EXCEPT !.position = position, !.velocity = 0])
                           ELSE w.cars,
                physCars |-> IF found THEN resetCar(w.physCars, playerId, position)
                             ELSE w.physCars,
                pendingEvents |-> Append(w.pendingEvents, Event("respawn", playerId, 0))]

\* handleInput accepting inputs only while racing
HandleInputRacingOnly(p, input) ==
  /\ registered /\ p \in playerRooms
  /\ LET w == [cars |-> cars, physCars |-> physCars, pendingEvents |-> pendingEvents]
         accepted == state = "racing" /\ HasCar(cars, p)
         r == IF ~accepted THEN w
              ELSE IF input.respawn THEN handleRespawn(w, p)
              ELSE [w EXCEPT !.physCars = applyInput(w.physCars, p, input)]
     IN /\ cars' = r.cars
        /\ physCars' = r.physCars
        /\ pendingEvents' = r.pendingEvents
  /\ emitted' = <<>>
  /\ reply' = NoReply
  /\ UNCHANGED <<env, storage, compared, leaderboard, manager, sessions, client, other, state, hostId, settings, players, gameState, results, timers,
                 listening, stateSequence, registered, playerRooms, now, hist>>

\* SocketHandler.handleInput -> GameRoom.handleInput
HandleInput(p, input) ==
  /\ registered /\ p \in playerRooms
  /\ LET w == [cars |-> cars, physCars |-> physCars, pendingEvents |-> pendingEvents]
         accepted == state \in {"countdown", "racing"} /\ HasCar(cars, p)
         r == IF ~accepted THEN w
              ELSE IF input.respawn THEN handleRespawn(w, p)
              ELSE [w EXCEPT !.physCars = applyInput(w.physCars, p, input)]
     IN /\ cars' = r.cars
        /\ physCars' = r.physCars
        /\ pendingEvents' = r.pendingEvents
  /\ emitted' = <<>>
  /\ reply' = NoReply
  /\ UNCHANGED <<env, storage, compared, leaderboard, manager, sessions, client, other, state, hostId, settings, players, gameState, results, timers,
                 listening, stateSequence, registered, playerRooms, now, hist>>

\* createStateSnapshot with the sequence read before the increment
createStateSnapshotPostIncrement ==
  [sequence |-> stateSequence, cars |-> cars, events |-> pendingEvents]

\* GameRoom.createStateSnapshot
createStateSnapshot ==
  [sequence |-> stateSequence + 1, cars |-> cars, events |-> pendingEvents]

\* GameRoom.broadcastState, one firing of the broadcastLoop interval
BroadcastState ==
  /\ BroadcastDue
  /\ LET snapshot == createStateSnapshot
     IN /\ stateSequence' = snapshot.sequence
        /\ emitted' = Emit(<<>>, [Msg("game_state", NoPlayer, snapshot.sequence, 0)
                                    EXCEPT !.snapshot = <<snapshot>>])
  /\ pendingEvents' = <<>>
  /\ timers' = [timers EXCEPT !.nextBroadcast = @ + STATE_BROADCAST_INTERVAL]
  /\ hist' = [hist EXCEPT !.snapshots = @ + 1]
  /\ reply' = NoReply
  /\ UNCHANGED <<env, storage, compared, leaderboard, manager, sessions, client, other, state, hostId, settings, players, cars, gameState, results,
                 physCars, listening, registered, playerRooms, now>>

\* ----------------------------------------------------------------------
\* Specification
\* ----------------------------------------------------------------------
Next ==
  \/ \E p \in Connected : (env.requests \/ state = "waiting") /\ JoinRoom(p)
  \/ \E p \in Connected : (env.requests \/ state = "waiting") /\ LeaveRoom(p)
  \/ \E p \in Connected, ready \in BOOLEAN : state = "waiting" /\ SetReady(p, ready)
  \/ \E p \in Connected : (env.requests \/ state = "waiting") /\ StartGame(p)
  \/ \E p \in Connected, input \in Inputs :
       /\ input.sequence <= env.maxSeq
       /\ ~input.accelerate => (env.coast /\ ~input.respawn)
       /\ input.respawn => (env.respawn /\ Len(pendingEvents) < MaxPending)
       /\ HandleInput(p, input)
  \/ CountdownTick
  \/ StartRace
  \/ UpdateGame
  \/ BroadcastState
  \/ CleanupIdleRooms
  \/ ServerShutdown

Spec == Init /\ [][Next]_vars

SpecInput == InitInput /\ [][Next]_vars

SpecRespawn == InitRespawn /\ [][Next]_vars

SpecCoast == InitCoast /\ [][Next]_vars

SpecLaps == InitLaps /\ [][Next]_vars

\* SocketHandler.handleJoinRoom -> RoomManager.joinRoom for the second room,
\* which is waiting: the sender leaves the room it is mapped to (the room of
\* this model as in LeaveRoom, or the second room itself) and is added
JoinOther(p) ==
  /\ other.registered
  /\ IF isFull(other.players)
     THEN /\ reply' = "JOIN_FAILED"
          /\ emitted' = <<>>
          /\ UNCHANGED <<env, storage, compared, leaderboard, manager, sessions, client, other, state, hostId, settings, players, cars,
                         gameState, results, physCars, timers, listening,
                         pendingEvents, stateSequence, registered, playerRooms,
                         now, hist>>
     ELSE LET member == registered /\ p \in playerRooms
              r == IF member THEN removePlayer(p)
                   ELSE [players |-> players, cars |-> cars,
                         physCars |-> physCars, hostId |-> hostId]
              removed == member /\ Len(r.players) = 0
              o == leavePrevious(other, p)
          IN /\ players' = r.players
             /\ cars' = r.cars
             /\ hostId' = r.hostId
             /\ physCars' = IF removed THEN <<>> ELSE r.physCars
             /\ timers' = IF removed THEN shutdownTimers(timers) ELSE timers
             /\ listening' = IF removed THEN FALSE ELSE listening
             /\ registered' = (registered /\ ~removed)
             /\ playerRooms' = playerRooms \ {p}
             /\ emitted' = IF member THEN Emit(<<>>, Msg("player_left", p, 0, 0))
                                     ELSE <<>>
             /\ other' = [o EXCEPT
                            !.players = IF \E i \in 1..Len(@) : @[i] = p
                                          THEN @ ELSE Append(@, p),
                            !.mapped = @ \cup {p},
                            !.lingering = IF p \in playerRooms
                                            THEN @ \cup {p} ELSE @]
             /\ reply' = NoReply
             /\ UNCHANGED <<env, storage, compared, leaderboard, manager, sessions, client, state, settings, gameState, results,
                            pendingEvents, stateSequence, now, hist>>

\* joinRoom with the id of the room as roomIdOrCode: rooms.get finds the
\* room, and the rest of joinRoom does not read how it was found
JoinRoomById(p) == JoinRoom(p)

NextPrivate ==
  \/ Next
  \/ \E p \in Connected : JoinRoomById(p)

SpecPrivate == InitPrivate /\ [][NextPrivate]_vars

\* ----------------------------------------------------------------------
\* Sessions: disconnect, the disconnect timeout, and a new connection
\* ----------------------------------------------------------------------
\* the timeout callback of handleDisconnect finding nobody to evict
evictsNever(p) == FALSE

\* the test of the timeout callback of handleDisconnect: the player is
\* mapped to the room, is in it, and is still marked disconnected
evicts(p) ==
  /\ registered /\ p \in playerRooms /\ HasPlayer(p)
  /\ ~GetKey(players, "id", p).isConnected

\* SocketHandler.handleDisconnect: a player found in a room is marked
\* disconnected by setPlayerConnected and the timeout is armed
Disconnect(p) ==
  /\ p \notin sessions.gone
  /\ LET inRoom == registered /\ p \in playerRooms
     IN /\ players' = IF inRoom /\ HasPlayer(p)
                        THEN PutKey(players, "id", p,
                               [GetKey(players, "id", p) EXCEPT !.isConnected = FALSE])
                        ELSE players
        /\ sessions' = [sessions EXCEPT
                          !.gone = @ \cup {p},
                          !.evictions = IF inRoom THEN @ \cup {p} ELSE @]
  /\ other' = [other EXCEPT !.lingering = @ \ {p}]
  /\ emitted' = <<>>
  /\ reply' = NoReply
  /\ UNCHANGED <<env, storage, compared, leaderboard, manager, client, state, hostId, settings, cars, gameState,
                 results, physCars, timers, listening, pendingEvents,
                 stateSequence, registered, playerRooms, now, hist>>

\* the client of a disconnected session connects again (socket.io
\* reconnection): the connection handler of SocketHandler.initialize gives
\* the new socket its own id as playerId and touches no room
Reconnect(p) ==
  /\ p \in sessions.gone /\ p \notin sessions.reconnected
  /\ sessions' = [sessions EXCEPT !.reconnected = @ \cup {p}]
  /\ emitted' = <<>>
  /\ reply' = NoReply
  /\ UNCHANGED <<env, storage, compared, leaderboard, manager, client, other, state, hostId, settings, players, cars,
                 gameState, results, physCars, timers, listening, pendingEvents,
                 stateSequence, registered, playerRooms, now, hist>>

\* the timeout callback of handleDisconnect, PLAYER_DISCONNECT_TIMEOUT after
\* the disconnect: RoomManager.leaveRoom as in LeaveRoom, then player_left
\* with the reason (b = 1) is broadcast to the room
EvictionTimeout(p) ==
  /\ p \in sessions.evictions
  /\ sessions' = [sessions EXCEPT !.evictions = @ \ {p}]
  /\ IF evicts(p)
     THEN LET r == removePlayer(p)
              empty == Len(r.players) = 0
          IN /\ players' = r.players
             /\ cars' = r.cars
             /\ hostId' = r.hostId
             /\ physCars' = IF empty THEN <<>> ELSE r.physCars
             /\ timers' = IF empty THEN shutdownTimers(timers) ELSE timers
             /\ listening' = IF empty THEN FALSE ELSE listening
             /\ registered' = ~empty
             /\ playerRooms' = playerRooms \ {p}
             /\ emitted' = Emit(<<>>, Msg("player_left", p, 0, 0))
                              \o <<Msg("player_left", p, 0, 1)>>
     ELSE /\ emitted' = <<>>
          /\ UNCHANGED <<players, cars, hostId, physCars, timers, listening,
                         registered, playerRooms>>
  /\ reply' = NoReply
  /\ UNCHANGED <<env, storage, compared, leaderboard, manager, client, other, state, settings, gameState, results,
                 pendingEvents, stateSequence, now, hist>>

NextSessions ==
  \/ Next
  \/ \E p \in Players : Disconnect(p)
  \/ \E p \in Players : Reconnect(p)
  \/ \E p \in Players : EvictionTimeout(p)

SpecSessions == InitSessions /\ [][NextSessions]_vars

\* ----------------------------------------------------------------------
\* RoomManager: the two indexes of the rooms
\* ----------------------------------------------------------------------
\* Map.set and Map.delete on a Map kept as a function
MapSet(m, k, v) == [x \in DOMAIN m \cup {k} |-> IF x = k THEN v ELSE m[x]]
MapDelete(m, k) == [x \in DOMAIN m \ {k} |-> m[x]]

\* generateRoomCode: the codes Math.random can give
generateRoomCode(length) == [1..length -> RoomCodeChars]

\* generateUniqueCode without its loop
generateAnyCode(byCode) == generateRoomCode(ROOM_CODE_LENGTH)

\* generateUniqueCode: the codes the loop can end with
generateUniqueCode(byCode) ==
  {code \in generateRoomCode(ROOM_CODE_LENGTH) : code \notin DOMAIN byCode}

\* getDefaultTrackId
getDefaultTrackId == IF Len(TrackList) > 0 THEN TrackList[1] ELSE "default-oval"

\* TrackManager.getTrack finds the track
TrackExists(trackId) == \E i \in 1..Len(TrackList) : TrackList[i] = trackId

\* the lookup of joinRoom: by id, then by upper-cased code
findRoom(m, roomIdOrCode) ==
  IF roomIdOrCode \in DOMAIN m.rooms THEN roomIdOrCode
  ELSE IF ToUpperCase(roomIdOrCode) \in DOMAIN m.roomsByCode
    THEN m.roomsByCode[ToUpperCase(roomIdOrCode)]
    ELSE NoRoom

roomVars == <<state, hostId, settings, players, cars, gameState, results, physCars,
              timers, listening, pendingEvents, stateSequence, registered,
              playerRooms, now, emitted, reply, hist, env, other, sessions, client,
              leaderboard, compared, storage>>

\* RoomManager.createRoom for a request with settings.trackId = requested
CreateRoom(requested) ==
  /\ manager.generated < MaxRooms
  /\ LET trackId == IF requested = "" THEN getDefaultTrackId ELSE requested
     IN IF ~TrackExists(trackId)
          THEN manager' = [manager EXCEPT !.created = NoRoom]
          ELSE \E code \in generateUniqueCode(manager.roomsByCode) :
                 LET roomId == RoomIds[manager.generated + 1]
                 IN manager' =
                      [rooms |-> MapSet(manager.rooms, roomId,
                                        [code |-> code, trackId |-> trackId,
                                         requested |-> requested]),
                       roomsByCode |-> MapSet(manager.roomsByCode, code, roomId),
                       generated |-> manager.generated + 1,
                       created |-> roomId]
  /\ UNCHANGED roomVars

\* RoomManager.removeRoom
RemoveManagedRoom(roomId) ==
  /\ roomId \in DOMAIN manager.rooms
  /\ manager' = [manager EXCEPT
                   !.rooms = MapDelete(@, roomId),
                   !.roomsByCode = MapDelete(@, manager.rooms[roomId].code)]
  /\ UNCHANGED roomVars

\* RoomManager.shutdown
ShutdownManager ==
  /\ manager.rooms # <<>>
  /\ manager' = [manager EXCEPT !.rooms = <<>>, !.roomsByCode = <<>>]
  /\ UNCHANGED roomVars

NextManager ==
  \/ \E requested \in RequestedTracks : CreateRoom(requested)
  \/ \E i \in 1..Len(RoomIds) : RemoveManagedRoom(RoomIds[i])
  \/ ShutdownManager

\* the RoomManager alone
SpecManager == InitInput /\ [][NextManager]_vars

\* ----------------------------------------------------------------------
\* LeaderboardManager: the lap times of one track
\* ----------------------------------------------------------------------
\* Array.findIndex (0-based, -1 when there is none) with the two tests of
\* submitLapTime
findIndexSlower(list, time) ==
  IF \E i \in 1..Len(list) : list[i].time > time
    THEN (CHOOSE i \in 1..Len(list) :
            /\ list[i].time > time
            /\ \A j \in 1..(i - 1) : ~(list[j].time > time)) - 1
    ELSE -1

\* the test of the nickname without toLowerCase
findIndexNicknameExact(list, nickname) ==
  IF \E i \in 1..Len(list) : list[i].nickname = nickname
    THEN (CHOOSE i \in 1..Len(list) :
            /\ list[i].nickname = nickname
            /\ \A j \in 1..(i - 1) : list[j].nickname # nickname) - 1
    ELSE -1

findIndexNickname(list, nickname) ==
  IF \E i \in 1..Len(list) : ToLowerCase(list[i].nickname) = ToLowerCase(nickname)
    THEN (CHOOSE i \in 1..Len(list) :
            /\ ToLowerCase(list[i].nickname) = ToLowerCase(nickname)
            /\ \A j \in 1..(i - 1) :
                 ToLowerCase(list[j].nickname) # ToLowerCase(nickname)) - 1
    ELSE -1

\* Array.splice(index, 1), Array.splice(index, 0, entry) and
\* Array.slice(0, count), with 0-based indexes
spliceOut(list, index) ==
  [i \in 1..(Len(list) - 1) |-> IF i <= index THEN list[i] ELSE list[i + 1]]
spliceIn(list, index, entry) ==
  [i \in 1..(Len(list) + 1) |->
     IF i <= index THEN list[i] ELSE IF i = index + 1 THEN entry ELSE list[i - 1]]
slice(list, count) == [i \in 1..Min(Len(list), count) |-> list[i]]

\* the body of submitLapTime on the list bestLapTimes: the list afterwards,
\* the rank and isNewRecord
submitLapTime(bestLapTimes, nickname, time) ==
  LET entry == [nickname |-> nickname, time |-> time]
      found == findIndexSlower(bestLapTimes, time)
      rank0 == IF found = -1 THEN Len(bestLapTimes) ELSE found
      existingIndex == findIndexNickname(bestLapTimes, nickname)
  IN IF existingIndex = -1 \/ bestLapTimes[existingIndex + 1].time > time
       THEN LET removed == IF existingIndex # -1
                             THEN spliceOut(bestLapTimes, existingIndex)
                             ELSE bestLapTimes
                rank == IF existingIndex # -1 /\ existingIndex < rank0
                          THEN rank0 - 1 ELSE rank0
                inserted == spliceIn(removed, rank, entry)
                trimmed == IF Len(inserted) > MAX_LEADERBOARD_ENTRIES
                             THEN slice(inserted, MAX_LEADERBOARD_ENTRIES)
                             ELSE inserted
            IN [list |-> trimmed, rank |-> rank + 1, isNewRecord |-> rank = 0,
                written |-> TRUE]
       ELSE [list |-> bestLapTimes, rank |-> rank0 + 1, isNewRecord |-> FALSE,
             written |-> FALSE]

\* the last submission: whether it took the place of an entry of its
\* nickname, whether that entry had the nickname in another case, and
\* whether the list was full
Submission(before, nickname, time) ==
  LET existingIndex == findIndexNickname(before, nickname)
  IN [replaced |-> existingIndex # -1 /\ before[existingIndex + 1].time > time,
      otherCase |-> existingIndex # -1 /\ before[existingIndex + 1].nickname # nickname,
      full |-> Len(before) >= MAX_LEADERBOARD_ENTRIES]

boardVars == <<state, hostId, settings, players, cars, gameState, results, physCars,
               timers, listening, pendingEvents, stateSequence, registered,
               playerRooms, now, emitted, reply, hist, env, other, sessions, client,
               manager, compared, storage>>

\* submitLapTime when getLeaderboard finds the leaderboard in its cache
\* (followed once the calls that wait for storage.read are through)
SubmitCached(nickname, time) ==
  /\ leaderboard.cached
  /\ leaderboard.calls = {}
  /\ LET result == submitLapTime(leaderboard.cache, nickname, time)
     IN leaderboard' =
          [leaderboard EXCEPT
             !.cache = result.list,
             !.stored = @ \/ result.written,
             !.storage = IF result.written THEN result.list ELSE @,
             !.last = Submission(leaderboard.cache, nickname, time)]
  /\ UNCHANGED boardVars

\* submitLapTime when the cache has no leaderboard: getLeaderboard waits for
\* storage.read (every player of the room may have a call that waits)
SubmitUncached(nickname, time) ==
  /\ ~leaderboard.cached
  /\ Cardinality(leaderboard.calls) < Cardinality(Players)
  /\ ~\E call \in leaderboard.calls : call.nickname = nickname /\ call.time = time
  /\ leaderboard' =
       [leaderboard EXCEPT
          !.calls = @ \cup {[nickname |-> nickname, time |-> time, stage |-> "read",
                             isCached |-> FALSE, own |-> <<>>]}]
  /\ UNCHANGED boardVars

\* getLeaderboard after storage.read: the leaderboard read, or a new one,
\* is put into the cache in place of the one that was there
ReadDone(call) ==
  /\ call \in leaderboard.calls
  /\ call.stage = "read"
  /\ LET read == IF leaderboard.stored THEN leaderboard.storage ELSE <<>>
     IN leaderboard' =
          [leaderboard EXCEPT
             !.cached = TRUE,
             !.cache = read,
             !.calls = {IF c = call
                          THEN [c EXCEPT !.stage = "got", !.isCached = TRUE]
                          ELSE IF c.isCached
                            THEN [c EXCEPT !.isCached = FALSE, !.own = leaderboard.cache]
                            ELSE c : c \in @}]
  /\ UNCHANGED boardVars

\* the leaderboard that getLeaderboard returned to a call
boardOf(call) == IF call.isCached THEN leaderboard.cache ELSE call.own

\* submitLapTime after getLeaderboard returned the leaderboard it read
SubmitRead(call) ==
  /\ call \in leaderboard.calls
  /\ call.stage = "got"
  /\ LET mine == boardOf(call)
         result == submitLapTime(mine, call.nickname, call.time)
     IN leaderboard' =
          [leaderboard EXCEPT
             !.cache = IF call.isCached THEN result.list ELSE @,
             !.stored = @ \/ result.written,
             !.storage = IF result.written THEN result.list ELSE @,
             !.calls = @ \ {call},
             !.last = Submission(mine, call.nickname, call.time)]
  /\ UNCHANGED boardVars

\* the server starts again: a new LeaderboardManager with an empty cache;
\* what was written to the storage is kept
RestartLeaderboard ==
  /\ leaderboard.cached
  /\ leaderboard.calls = {}
  /\ leaderboard' = [leaderboard EXCEPT !.cached = FALSE, !.cache = <<>>,
                                         !.last = NoSubmission]
  /\ UNCHANGED boardVars

NextLeaderboard ==
  \/ RestartLeaderboard
  \/ \E nickname \in Nicknames, time \in LapTimes : SubmitCached(nickname, time)
  \/ \E nickname \in Nicknames, time \in LapTimes : SubmitUncached(nickname, time)
  \/ \E call \in leaderboard.calls : ReadDone(call)
  \/ \E call \in leaderboard.calls : SubmitRead(call)

\* the LeaderboardManager alone
SpecLeaderboard == InitInput /\ [][NextLeaderboard]_vars

\* ----------------------------------------------------------------------
\* One physics step of the client predictor and of the server
\* ----------------------------------------------------------------------
\* numbers are kept in thousandths
Scale == 1000
Mul(a, b) == (a * b) \div Scale
Div(a, b) == (a * Scale) \div b

\* PHYSICS_CONSTANTS, in thousandths
PHYSICS_CONSTANTS ==
  [ENGINE_FORCE |-> 12000, REVERSE_FORCE |-> 3500, DRAG_COEFFICIENT |-> 15,
   ROLLING_RESISTANCE |-> 12, MAX_STEERING_ANGLE |-> 314,
   MAX_ANGULAR_VELOCITY |-> 2000, MAX_SPEED |-> 20000, MAX_REVERSE_SPEED |-> 10000,
   NITRO_BOOST_MULTIPLIER |-> 1300]

\* the constants of the client for the body of the server: mass, the square
\* of the step (in hundredths) and 1 - frictionAir
SERVER_BODY_MASS == 1200
MATTER_DT_SQUARED == 27778
MATTER_FRICTION_AIR == 990

\* Math.sin and Math.cos at the quarter turns
QuarterTurns == {0, 1571, 3142, 4712}
Sin(angle) == IF angle = 1571 THEN Scale ELSE IF angle = 4712 THEN -Scale ELSE 0
Cos(angle) == IF angle = 0 THEN Scale ELSE IF angle = 3142 THEN -Scale ELSE 0

\* Math.sqrt of a sum of squares, rounded down
RECURSIVE SqrtBetween(_, _, _)
SqrtBetween(n, low, high) ==
  IF low >= high THEN low
  ELSE LET mid == (low + high + 1) \div 2
       IN IF mid * mid <= n THEN SqrtBetween(n, mid, high)
          ELSE SqrtBetween(n, low, mid - 1)
\* vec2Length and Matter.Vector.magnitude
vec2Length(vx, vy) == SqrtBetween(vx * vx + vy * vy, 0, 46000)

\* the speed factor of the steering, the same text on both sides
speedFactor(speed) ==
  IF speed < 3000 THEN Div(speed, 3000)
  ELSE IF speed < 15000 THEN Scale
  ELSE Max(500, Div(15000, speed))

\* the velocity after one step of the engine for a force (in millionths):
\* v * (1 - frictionAir) + (force / mass) * dt^2
Verlet(v, force) ==
  Mul(v, MATTER_FRICTION_AIR)
    + (((force * Scale) \div SERVER_BODY_MASS) * MATTER_DT_SQUARED) \div 100000

\* simulateStep of the client
simulateStep(predictedState, input) ==
  LET forwardX == Sin(predictedState.rotation)
      forwardY == -Cos(predictedState.rotation)
      speed == vec2Length(predictedState.vx, predictedState.vy)
      forwardSpeed == Mul(predictedState.vx, forwardX) + Mul(predictedState.vy, forwardY)
      isMovingForward == forwardSpeed > 500
      isMovingBackward == forwardSpeed < -500
      accelerates == input.accelerate /\ speed < PHYSICS_CONSTANTS.MAX_SPEED
      brakes == input.brake /\ isMovingForward /\ forwardSpeed > Scale
      reverses == input.brake /\ ~(isMovingForward /\ forwardSpeed > Scale)
                    /\ speed < PHYSICS_CONSTANTS.MAX_REVERSE_SPEED
      force == (IF accelerates THEN PHYSICS_CONSTANTS.ENGINE_FORCE ELSE 0)
                 + (IF input.nitro THEN (PHYSICS_CONSTANTS.ENGINE_FORCE * 15) \div 10 ELSE 0)
                 - (IF reverses THEN PHYSICS_CONSTANTS.REVERSE_FORCE ELSE 0)
      forceX == Mul(forwardX, force)
      forceY == Mul(forwardY, force)
      vx1 == IF brakes THEN Mul(predictedState.vx, 950) ELSE predictedState.vx
      vy1 == IF brakes THEN Mul(predictedState.vy, 950) ELSE predictedState.vy
      steerInput == IF input.steerValue # 0 THEN input.steerValue
                    ELSE IF input.steerLeft THEN -Scale
                    ELSE IF input.steerRight THEN Scale ELSE 0
      turnForce == Mul(Mul(Mul(steerInput, PHYSICS_CONSTANTS.MAX_STEERING_ANGLE), 180),
                       speedFactor(speed))
      av1 == IF steerInput # 0
               THEN IF speed > 500
                      THEN (IF isMovingBackward THEN -turnForce ELSE turnForce)
                      ELSE predictedState.angularVelocity
               ELSE Mul(predictedState.angularVelocity, 850)
      av2 == IF Abs(av1) > PHYSICS_CONSTANTS.MAX_ANGULAR_VELOCITY
               THEN (IF av1 > 0 THEN 1 ELSE -1) * PHYSICS_CONSTANTS.MAX_ANGULAR_VELOCITY
               ELSE av1
      dragFactor == Scale - Mul(PHYSICS_CONSTANTS.DRAG_COEFFICIENT, speed)
                      - PHYSICS_CONSTANTS.ROLLING_RESISTANCE
      vx2 == Mul(vx1, dragFactor)
      vy2 == Mul(vy1, dragFactor)
      maxSpeed == IF input.nitro
                    THEN Mul(PHYSICS_CONSTANTS.MAX_SPEED,
                             PHYSICS_CONSTANTS.NITRO_BOOST_MULTIPLIER)
                    ELSE PHYSICS_CONSTANTS.MAX_SPEED
      vx3 == IF speed > maxSpeed THEN Mul(vx2, Div(maxSpeed, speed)) ELSE vx2
      vy3 == IF speed > maxSpeed THEN Mul(vy2, Div(maxSpeed, speed)) ELSE vy2
      vx == Verlet(vx3, forceX)
      vy == Verlet(vy3, forceY)
      angularVelocity == Mul(av2, MATTER_FRICTION_AIR)
  IN [x |-> predictedState.x + vx, y |-> predictedState.y + vy,
      rotation |-> predictedState.rotation + angularVelocity,
      vx |-> vx, vy |-> vy, angularVelocity |-> angularVelocity]

\* Matter.Vector.rotate of the vector (0, y) by an angle
rotateX(y, angle) == -Mul(y, Sin(angle))
rotateY(y, angle) == Mul(y, Cos(angle))

\* PhysicsEngine.updateCar of the server followed by Matter.Engine.update,
\* for a car with nitroAmount left, before the position is wrapped
updateCarAndStep(carState, input, nitroAmount) ==
  LET currentSpeed == vec2Length(carState.vx, carState.vy)
      forwardDirX == Sin(carState.rotation)
      forwardDirY == -Cos(carState.rotation)
      forwardSpeed == Mul(carState.vx, forwardDirX) + Mul(carState.vy, forwardDirY)
      isMovingForward == forwardSpeed > 500
      isMovingBackward == forwardSpeed < -500
      accelerates == input.accelerate /\ currentSpeed < PHYSICS_CONSTANTS.MAX_SPEED
      brakes == input.brake /\ isMovingForward /\ forwardSpeed > Scale
      reverses == input.brake /\ ~brakes
                    /\ currentSpeed < PHYSICS_CONSTANTS.MAX_REVERSE_SPEED
      nitroActive == input.nitro /\ nitroAmount > 0
      \* applyForce adds up the rotated forces (0, -ENGINE_FORCE * 0.001),
      \* (0, REVERSE_FORCE * 0.001) and (0, -ENGINE_FORCE * 0.0015)
      forceY0 == (IF accelerates THEN -PHYSICS_CONSTANTS.ENGINE_FORCE ELSE 0)
                   + (IF reverses THEN PHYSICS_CONSTANTS.REVERSE_FORCE ELSE 0)
                   + (IF nitroActive
                        THEN -((PHYSICS_CONSTANTS.ENGINE_FORCE * 15) \div 10) ELSE 0)
      forceX == rotateX(forceY0, carState.rotation)
      forceY == rotateY(forceY0, carState.rotation)
      vx1 == IF brakes THEN Mul(carState.vx, 950) ELSE carState.vx
      vy1 == IF brakes THEN Mul(carState.vy, 950) ELSE carState.vy
      steerInput == IF input.steerRight THEN Scale
                    ELSE IF input.steerLeft THEN -Scale ELSE 0
      turnForce == Mul(Mul(Mul(steerInput, PHYSICS_CONSTANTS.MAX_STEERING_ANGLE), 180),
                       speedFactor(currentSpeed))
      av1 == IF steerInput # 0
               THEN IF currentSpeed > 500
                      THEN (IF isMovingBackward THEN -turnForce ELSE turnForce)
                      ELSE carState.angularVelocity
               ELSE Mul(carState.angularVelocity, 850)
      dragFactor == Scale - Mul(PHYSICS_CONSTANTS.DRAG_COEFFICIENT, currentSpeed)
                      - PHYSICS_CONSTANTS.ROLLING_RESISTANCE
      vx2 == Mul(vx1, dragFactor)
      vy2 == Mul(vy1, dragFactor)
      maxSpeed == IF nitroActive
                    THEN Mul(PHYSICS_CONSTANTS.MAX_SPEED,
                             PHYSICS_CONSTANTS.NITRO_BOOST_MULTIPLIER)
                    ELSE PHYSICS_CONSTANTS.MAX_SPEED
      vx3 == IF currentSpeed > maxSpeed THEN Mul(vx2, Div(maxSpeed, currentSpeed)) ELSE vx2
      vy3 == IF currentSpeed > maxSpeed THEN Mul(vy2, Div(maxSpeed, currentSpeed)) ELSE vy2
      av2 == IF Abs(av1) > PHYSICS_CONSTANTS.MAX_ANGULAR_VELOCITY
               THEN (IF av1 > 0 THEN 1 ELSE -1) * PHYSICS_CONSTANTS.MAX_ANGULAR_VELOCITY
               ELSE av1
      \* Matter.Engine.update
      vx == Verlet(vx3, forceX)
      vy == Verlet(vy3, forceY)
      angularVelocity == Mul(av2, MATTER_FRICTION_AIR)
  IN [x |-> carState.x + vx, y |-> carState.y + vy,
      rotation |-> carState.rotation + angularVelocity,
      vx |-> vx, vy |-> vy, angularVelocity |-> angularVelocity]

\* the car states and the input records that are compared
ComparedStates ==
  [x : {0}, y : {0}, rotation : {0, 1571},
   vx : {0}, vy : {-25000, -12000, -2000, -800, 0, 2000},
   angularVelocity : {0, 3000}]
  \cup [x : {0}, y : {0}, rotation : {0}, vx : {3000}, vy : {-4000},
        angularVelocity : {0}]
ComparedInputs ==
  [accelerate : BOOLEAN, brake : BOOLEAN, steerLeft : BOOLEAN, steerRight : BOOLEAN,
   steerValue : {-Scale, 0, 500, Scale}, nitro : BOOLEAN]
NitroAmounts == {0, 50, 100}

comparedVars == <<state, hostId, settings, players, cars, gameState, results, physCars,
                  timers, listening, pendingEvents, stateSequence, registered,
                  playerRooms, now, emitted, reply, hist, env, other, sessions, client,
                  manager, leaderboard, storage>>

\* one step of both for the same car state and the same input record
StepBoth(carState, input, nitroAmount) ==
  /\ ~compared.stepped
  /\ compared' = [stepped |-> TRUE, car |-> carState, input |-> input,
                  nitroAmount |-> nitroAmount,
                  predicted |-> simulateStep(carState, input),
                  integrated |-> updateCarAndStep(carState, input, nitroAmount)]
  /\ UNCHANGED comparedVars

NextCompared ==
  \E carState \in ComparedStates, input \in ComparedInputs,
     nitroAmount \in NitroAmounts : StepBoth(carState, input, nitroAmount)

\* the two integrators side by side
SpecCompared == InitInput /\ [][NextCompared]_vars

\* PhysicsEngine.updateCar for a car whose input is null, which returns at
\* once, followed by Matter.Engine.update, which applies frictionAir
updateCarWithoutInput(carState) ==
  LET vx == Verlet(carState.vx, 0)
      vy == Verlet(carState.vy, 0)
      angularVelocity == Mul(carState.angularVelocity, MATTER_FRICTION_AIR)
  IN [x |-> carState.x + vx, y |-> carState.y + vy,
      rotation |-> carState.rotation + angularVelocity,
      vx |-> vx, vy |-> vy, angularVelocity |-> angularVelocity]

\* the velocities that a car without an input has got from a collision
PushedStates ==
  [x : {0}, y : {0}, rotation : {0}, vx : {0, 3000}, vy : {800, 2000},
   angularVelocity : {0}]

\* a car that has received no input is set in motion by another car
PushCar(carState) ==
  /\ ~compared.stepped
  /\ compared' = [compared EXCEPT !.stepped = TRUE, !.car = carState,
                                  !.integrated = carState]
  /\ UNCHANGED comparedVars

\* PhysicsEngine.update for the car without an input, while it moves
TickWithoutInput ==
  /\ compared.stepped
  /\ vec2Length(compared.integrated.vx, compared.integrated.vy) > 0
  /\ compared' = [compared EXCEPT !.integrated = updateCarWithoutInput(@)]
  /\ UNCHANGED comparedVars

NextWithoutInput ==
  \/ \E carState \in PushedStates : PushCar(carState)
  \/ TickWithoutInput

\* a moving car for which the server holds no input
SpecWithoutInput == InitInput /\ [][NextWithoutInput]_vars

\* ----------------------------------------------------------------------
\* StorageService: per-key lock and write
\* ----------------------------------------------------------------------
storageVars == <<state, hostId, settings, players, cars, gameState, results, physCars,
                 timers, listening, pendingEvents, stateSequence, registered,
                 playerRooms, now, emitted, reply, hist, env, other, sessions, client,
                 manager, leaderboard, compared>>

\* a call that tests the lock once, at its start, and not again when woken
mustWaitOnce(st, w, k) == st.pc[w] = "idle" /\ st.locks[k] # "none"

\* the loop condition of acquireLock, evaluated at the call and again after
\* every wake-up
mustWait(st, w, k) == st.locks[k] # "none"

\* StorageService.acquireLock up to its first suspension: wait for the
\* promise in the Map or, in the same turn, put an own promise there
acquireLock(st, w, k) ==
  IF mustWait(st, w, k)
    THEN [st EXCEPT !.pc[w] = "waiting", !.key[w] = k, !.awaiting[w] = st.locks[k]]
    ELSE [st EXCEPT !.pc[w] = "acquired", !.key[w] = k, !.awaiting[w] = "none",
                    !.locks[k] = w]

\* StorageService.releaseLock: the promise in the Map is deleted and
\* resolved, which wakes every call that awaits it
releaseLock(st, k) ==
  IF st.locks[k] = "none" THEN st
  ELSE [st EXCEPT !.locks[k] = "none",
                  !.pc = [x \in Writers |->
                            IF st.pc[x] = "waiting" /\ st.awaiting[x] = st.locks[k]
                              THEN "woken" ELSE st.pc[x]]]

\* the calls of write inside the critical section of key k
InCriticalSection(k) ==
  {w \in Writers : storage.key[w] = k /\ storage.pc[w] \in {"acquired", "written", "renamed"}}

\* StorageService.write is called
Write(w, k) ==
  /\ storage.pc[w] = "idle"
  /\ storage' = acquireLock(storage, w, k)
  /\ UNCHANGED storageVars

\* a woken call runs the loop of acquireLock again
ResumeAcquire(w) ==
  /\ storage.pc[w] = "woken"
  /\ storage' = acquireLock(storage, w, storage.key[w])
  /\ UNCHANGED storageVars

\* fs.writeFile(tempPath) completes
WriteFile(w) ==
  /\ storage.pc[w] = "acquired"
  /\ storage' = [storage EXCEPT !.pc[w] = "written", !.temp[storage.key[w]] = w]
  /\ UNCHANGED storageVars

\* fs.writeFile(tempPath) fails: the finally block releases the lock
WriteFileFails(w) ==
  /\ storage.pc[w] = "acquired"
  /\ storage' = [releaseLock(storage, storage.key[w]) EXCEPT !.pc[w] = "idle", !.key[w] = "none"]
  /\ UNCHANGED storageVars

\* fs.rename(tempPath, filePath) completes
Rename(w) ==
  /\ storage.pc[w] = "written"
  /\ storage' = [storage EXCEPT !.pc[w] = "renamed",
                                 !.file[storage.key[w]] = storage.temp[storage.key[w]],
                                 !.temp[storage.key[w]] = "none"]
  /\ UNCHANGED storageVars

\* the finally block of write
Release(w) ==
  /\ storage.pc[w] = "renamed"
  /\ storage' = [releaseLock(storage, storage.key[w]) EXCEPT !.pc[w] = "idle", !.key[w] = "none"]
  /\ UNCHANGED storageVars

NextStorage ==
  \/ \E w \in Writers, k \in StorageKeys : Write(w, k)
  \/ \E w \in Writers : ResumeAcquire(w)
  \/ \E w \in Writers : WriteFile(w)
  \/ \E w \in Writers : WriteFileFails(w)
  \/ \E w \in Writers : Rename(w)
  \/ \E w \in Writers : Release(w)

\* three callers of write on two keys
SpecStorage == InitInput /\ [][NextStorage]_vars

NextFull ==
  \/ Next
  \/ \E p \in Connected : JoinRoom(p)
  \/ \E p \in Connected : JoinOther(p)

SpecFull == InitFull /\ [][NextFull]_vars

\* SocketHandler.handleCreateRoom -> RoomManager.createRoom for the second
\* room: the sender becomes its host and only player and is mapped to it;
\* the room that the sender was mapped to is not told
CreateOther(p) ==
  /\ ~other.registered
  /\ other' = [registered |-> TRUE, players |-> <<p>>, mapped |-> {p},
               lingering |-> IF p \in playerRooms THEN other.lingering \cup {p}
                             ELSE other.lingering]
  /\ playerRooms' = playerRooms \ {p}
  /\ emitted' = <<>>
  /\ reply' = NoReply
  /\ UNCHANGED <<env, storage, compared, leaderboard, manager, sessions, client, state, hostId, settings, players, cars,
                 gameState, results, physCars, timers, listening, pendingEvents,
                 stateSequence, registered, now, hist>>

NextCreate ==
  \/ Next
  \/ \E p \in Connected : CreateOther(p)
  \/ \E p \in Connected : JoinOther(p)

SpecCreate == InitCreate /\ [][NextCreate]_vars

\* GameRoom.resetToLobby, which no handler calls, called by an embedding
\* program during the countdown or from the results: the state, the cars,
\* the results and the ready flags are reset; the timers are not touched
ResetToLobby ==
  /\ registered
  /\ state \in {"countdown", "results"}
  /\ now < MaxTime
  /\ state' = "waiting"
  /\ gameState' = InitGameState
  /\ cars' = <<>>
  /\ results' = <<>>
  /\ physCars' = <<>>
  /\ players' = [i \in 1..Len(players) |-> [players[i] EXCEPT !.isReady = FALSE]]
  /\ emitted' = <<>>
  /\ reply' = NoReply
  /\ UNCHANGED <<env, storage, compared, leaderboard, manager, sessions, client, other, hostId, settings, timers, listening,
                 pendingEvents, stateSequence, registered, playerRooms, now, hist>>

\* the players present at the start drive with the accelerator held
InitReset ==
  /\ env = [requests |-> FALSE, respawn |-> FALSE, maxSeq |-> 1, coast |-> FALSE,
            longRace |-> FALSE, privateRoom |-> FALSE, strict |-> FALSE]
  /\ InitRoom
  /\ other = NoOtherRoom

\* the host alone gets ready, starts and drives, and the room is reset
NextReset ==
  \/ \E ready \in BOOLEAN : state = "waiting" /\ SetReady(hostId, ready)
  \/ state = "waiting" /\ StartGame(hostId)
  \/ \E input \in Inputs :
       /\ input.sequence <= env.maxSeq
       /\ input.accelerate /\ ~input.respawn
       /\ HandleInput(hostId, input)
  \/ CountdownTick
  \/ StartRace
  \/ UpdateGame
  \/ BroadcastState
  \/ ResetToLobby

\* the room with a caller of resetToLobby
SpecReset == InitReset /\ [][NextReset]_vars

NextRooms ==
  \/ Next
  \/ \E p \in Connected : JoinOther(p)

SpecRooms == InitRooms /\ [][NextRooms]_vars

\* ----------------------------------------------------------------------
\* The client of one player: input recording and server reconciliation
\* ----------------------------------------------------------------------
\* recordInput: push, then drop the oldest inputs beyond MAX_PENDING_INPUTS
RECURSIVE trimPending(_)
trimPending(pending) ==
  IF Len(pending) > MAX_PENDING_INPUTS THEN trimPending(Tail(pending)) ELSE pending

recordInput(pending, input) == trimPending(Append(pending, input))

\* the loop of reconcileWithServer with < in place of <=
RECURSIVE reconcileWithServerStrict(_, _)
reconcileWithServerStrict(pending, serverSequence) ==
  IF Len(pending) > 0 /\ pending[1].sequence < serverSequence
    THEN reconcileWithServerStrict(Tail(pending), serverSequence)
    ELSE pending

\* reconcileWithServer: the pending inputs left after the inputs that the
\* server has processed were shifted from the head of the FIFO
RECURSIVE reconcileWithServer(_, _)
reconcileWithServer(pending, serverSequence) ==
  IF Len(pending) > 0 /\ pending[1].sequence <= serverSequence
    THEN reconcileWithServer(Tail(pending), serverSequence)
    ELSE pending

serverVars == <<state, hostId, settings, players, cars, gameState, results, physCars,
                timers, listening, pendingEvents, stateSequence, registered,
                playerRooms, now, emitted, reply, hist, env, other, sessions,
                manager, leaderboard, compared, storage>>

\* InputHandler.updateInput on a key change or a polling tick: the sequence
\* number is incremented; the input is sent and recorded only while the
\* client sees the room racing
UpdateInput(accelerate, racing) ==
  /\ client.inputSequence < MaxClientInputs
  /\ LET inputSequence == client.inputSequence + 1
     IN client' = [client EXCEPT
                     !.inputSequence = inputSequence,
                     !.pendingInputs =
                        IF racing
                          THEN recordInput(@, [sequence |-> inputSequence,
                                               accelerate |-> accelerate])
                          ELSE @,
                     !.currentInput = IF racing THEN inputSequence ELSE @]
  /\ UNCHANGED serverVars

\* gameStore.updateFromServer for the local car of a snapshot whose record
\* has lastInputSequence = serverSequence
UpdateFromServer(serverSequence) ==
  /\ client' = [client EXCEPT
                  !.pendingInputs = reconcileWithServer(@, serverSequence),
                  !.lastConfirmedSequence = serverSequence]
  /\ UNCHANGED serverVars

\* clearPrediction, when the client leaves the game
ClearPrediction ==
  /\ \/ client.pendingInputs # <<>> \/ client.lastConfirmedSequence # 0
     \/ client.currentInput # 0 \/ client.steps # 0
  /\ client' = [client EXCEPT !.pendingInputs = <<>>, !.lastConfirmedSequence = 0,
                              !.currentInput = 0, !.steps = 0]
  /\ UNCHANGED serverVars

NextClient ==
  \/ \E accelerate \in BOOLEAN, racing \in BOOLEAN : UpdateInput(accelerate, racing)
  \/ \E serverSequence \in 0..MaxClientInputs : UpdateFromServer(serverSequence)
  \/ ClearPrediction

\* the client alone, the room at rest
SpecClient == InitInput /\ [][NextClient]_vars

\* predictFrame, called by the render loop: with a held input, simulateStep
\* runs once for every DELTA_TIME that the accumulator holds
PredictFrame(n) ==
  /\ client.currentInput # 0
  /\ client.steps + n <= MaxSteps
  /\ client' = [client EXCEPT !.steps = @ + n]
  /\ UNCHANGED serverVars

NextPredict ==
  \/ NextClient
  \/ \E n \in 1..2 : PredictFrame(n)

\* the client with its render loop
SpecPredict == InitInput /\ [][NextPredict]_vars

\* ----------------------------------------------------------------------
\* Properties
\* ----------------------------------------------------------------------
\* the snapshots among the messages emitted by the last step
Snapshots ==
  {emitted[i].snapshot[1] : i \in {j \in 1..Len(emitted) : emitted[j].type = "game_state"}}

\* C1: the room's state changes only by the steps waiting -> countdown,
\* countdown -> racing, racing -> results and results -> waiting, whatever
\* requests and timer firings are interleaved.
C1_StateSteps ==
  [][state' # state =>
       <<state, state'>> \in {<<"waiting", "countdown">>, <<"countdown", "racing">>,
                              <<"racing", "results">>, <<"results", "waiting">>}]_vars

\* a race ran from the lobby through countdown and racing to the results
C1_Witness == state = "results" /\ results # <<>>

\* C6: the first snapshot emitted carries sequence 1 and every later one a
\* sequence one greater than the previous: a snapshot's sequence is the
\* number of snapshots created so far.
C6_SnapshotSequence ==
  /\ stateSequence = hist.snapshots
  /\ \A s \in Snapshots : s.sequence = hist.snapshots

\* the second snapshot of a race has just been emitted
C6_Witness == \E s \in Snapshots : s.sequence = 2

\* C10: a start_game request that does not come from the host of a waiting
\* room with at least MIN_PLAYERS_TO_START ready players leaves the state,
\* the cars and the timers unchanged and is answered NOT_HOST or
\* CANNOT_START; only the other requests move the room to countdown.
C10_StartGameGuard ==
  [][\A p \in Players :
       StartGame(p) =>
         IF hostId = p /\ state = "waiting"
            /\ readyCount(players) >= MIN_PLAYERS_TO_START
           THEN state' = "countdown"
           ELSE /\ state' = state /\ cars' = cars /\ timers' = timers
                /\ reply' \in {"NOT_HOST", "CANNOT_START"}]_vars

\* the host of a waiting room was refused because nobody is ready
C10_Witness ==
  /\ reply = "CANNOT_START" /\ state = "waiting"
  /\ readyCount(players) < MIN_PLAYERS_TO_START

\* C2: a racing room moves to results only on a tick at which every car is
\* finished or FINISH_GRACE_PERIOD of race time has passed since the first
\* car finished, also when players leave during the race.
C2_RaceEndsWhenDue ==
  [][(state = "racing" /\ state' = "results") =>
       \/ \A i \in 1..Len(cars') : cars'[i].finished
       \/ /\ hist'.firstFinish >= 0
          /\ gameState'.elapsedTime - hist'.firstFinish >= FINISH_GRACE_PERIOD]_vars

\* C3: once the room is shut down its state never changes and no snapshot
\* is created: neither the countdown, nor the delayed race start, nor the
\* tick, nor the broadcast runs again.
C3_NoTimerAfterShutdown ==
  [][~registered =>
       /\ state' = state /\ gameState' = gameState /\ now' = now
       /\ stateSequence' = stateSequence]_vars

\* C4: no game event is dropped: when the race is over and no further
\* snapshot will be emitted, every event raised has been delivered.
C4_EventsDelivered == state = "results" => pendingEvents = <<>>

\* C5: in every snapshot a car's lastInputSequence is the highest sequence
\* number of the inputs that the ticks up to the snapshot applied to the
\* player's car.
C5_LastInputSequence ==
  \A s \in Snapshots : \A i \in 1..Len(s.cars) :
    s.cars[i].lastInputSequence = hist.maxSeq[s.cars[i].playerId]

\* C7: for each player the checkpoint events of a lap come in the order
\* 0, 1, ..., N-1 without gap or repeat, and the lap event (logged as N)
\* only after all N of them.
C7_CheckpointOrder ==
  \A p \in Players : \A i \in 1..Len(hist.progress[p]) : hist.progress[p][i] = i - 1

\* a car has passed both checkpoints and completed the lap
C7_Witness ==
  \E p \in Players : Len(hist.progress[p]) = NumCheckpoints + 1

\* C8: on the tick at which a car's lap count reaches settings.lapCount the
\* car is finished with finishTime the race time of that tick, its result
\* has the position one more than the number of cars that finished before
\* it, and player_finished is emitted for it.
C8_FinishOnLastLap ==
  [][\A p \in Players :
       (/\ HasCar(cars, p) /\ HasCar(cars', p)
        /\ GetCar(cars, p).lap < settings.lapCount
        /\ GetCar(cars', p).lap >= settings.lapCount) =>
         /\ GetCar(cars', p).finished
         /\ GetCar(cars', p).finishTime = gameState'.elapsedTime
         /\ \E k \in (Len(results) + 1)..Len(results') :
              /\ results'[k].playerId = p /\ results'[k].finished
              /\ results'[k].position =
                   1 + Cardinality({results'[j].playerId : j \in 1..(k - 1)})
         /\ \E i \in 1..Len(emitted') :
              emitted'[i].type = "player_finished" /\ emitted'[i].playerId = p]_vars

\* C9: a respawn input for an unfinished car puts the car on the last
\* checkpoint it passed, or on its spawn if it passed none, with velocity
\* zero, and queues a respawn event for the player.
C9_RespawnTarget ==
  [][\A p \in Players, input \in Inputs :
       (/\ input.respawn /\ state \in {"countdown", "racing"}
        /\ HasCar(cars, p) /\ HasCar(physCars, p) /\ ~GetCar(cars, p).finished
        /\ HandleInput(p, input)) =>
         LET car == GetCar(cars, p)
             target == IF car.checkpoint = 0
                         THEN SpawnPosition(KeyIndex(cars, "playerId", p) - 1)
                         ELSE CheckpointElements[car.checkpoint]
         IN /\ GetCar(cars', p).position = target
            /\ GetCar(cars', p).velocity = 0
            /\ GetCar(physCars', p).x = target
            /\ GetCar(physCars', p).v = 0
            /\ pendingEvents' = Append(pendingEvents, Event("respawn", p, 0))]_vars

\* the messages of the given type among those emitted by the last step
Emitted(t) == {i \in 1..Len(emitted) : emitted[i].type = t}

\* C11: started at COUNTDOWN_SECONDS, the countdown goes down by 1 per
\* timer tick to 0 and never below; every tick emits a countdown message
\* with the new value; at 0 the race start is pending, and the step that
\* enters racing is the only one that emits game_started, once.
C11_Countdown ==
  /\ [](/\ gameState.countdown \in 0..COUNTDOWN_SECONDS
        /\ \A i \in Emitted("countdown") : emitted[i].a = gameState.countdown
        /\ Cardinality(Emitted("countdown")) <= 1
        /\ (state = "countdown" /\ gameState.countdown = 0) => timers.startRace
        /\ (Emitted("game_started") # {}) =>
             (state = "racing" /\ Cardinality(Emitted("game_started")) = 1))
  /\ [][/\ (state = "waiting" /\ state' = "countdown") =>
             gameState'.countdown = COUNTDOWN_SECONDS
        /\ (gameState'.countdown # gameState.countdown /\ state = "countdown") =>
             /\ gameState'.countdown = gameState.countdown - 1
             /\ listening => Emitted("countdown")' # {}
        /\ (Emitted("game_started")' # {}) =>
             (state = "countdown" /\ gameState.countdown = 0)
        /\ (state = "countdown" /\ state' = "racing" /\ listening) =>
             Emitted("game_started")' # {}]_vars

\* the race has just started after the count reached 0
C11_Witness ==
  /\ state = "racing" /\ gameState.countdown = 0
  /\ Emitted("game_started") # {}

\* C12: an input arriving in waiting or results changes nothing; an input
\* arriving in countdown or racing for a player with a car becomes the
\* car's stored input; the stored inputs survive the start of the race,
\* the first racing tick gives a car with a stored accelerating input a
\* nonzero velocity, and a snapshot carries the cars as the tick left them.
C12_InputAcceptance ==
  [][/\ \A p \in Players, input \in Inputs :
          HandleInput(p, input) =>
            IF state \in {"countdown", "racing"}
              THEN (~input.respawn /\ HasCar(cars, p) /\ HasCar(physCars, p)) =>
                     GetCar(physCars', p).input = input
              ELSE cars' = cars /\ physCars' = physCars
                   /\ pendingEvents' = pendingEvents
     /\ (state = "countdown" /\ state' = "racing") => physCars' = physCars
     /\ (UpdateGame /\ gameState.elapsedTime = 0) =>
          \A p \in Players :
            (/\ HasCar(cars, p) /\ HasCar(physCars, p)
             /\ GetCar(physCars, p).input.present
             /\ GetCar(physCars, p).input.accelerate) =>
              GetCar(cars', p).velocity # 0
     /\ \A sn \in Snapshots' : sn.cars = cars]_vars

\* the first snapshot of a race shows a car that is already moving
C12_Witness ==
  \E sn \in Snapshots : sn.sequence = 1 /\ \E i \in 1..Len(sn.cars) : sn.cars[i].velocity # 0

\* C13: in results neither loop is running, and from then on no tick runs
\* (the clock of the race and the race time stand still) and no snapshot
\* is created or emitted.
C13_LoopsStopped ==
  /\ [](state = "results" =>
          (timers.gameLoop # "set" /\ timers.broadcastLoop # "set"))
  /\ [][state = "results" =>
          /\ state' = "results" /\ gameState' = gameState /\ now' = now
          /\ stateSequence' = stateSequence /\ Snapshots' = {}]_vars

\* the room is in results and a later request has been handled there
C13_Witness == state = "results" /\ Emitted("race_finished") = {}

\* C14: when race_finished is emitted, every car that has not finished has
\* a result with finished = FALSE and its lap times, no such result comes
\* before a finished one, and every player that finished has a result with
\* finished = TRUE and the lap times that make up its total time.
C14_ResultsComplete ==
  (Emitted("race_finished") # {}) =>
    /\ \A i \in 1..Len(cars) :
         ~cars[i].finished =>
           \E k \in 1..Len(results) :
             /\ results[k].playerId = cars[i].playerId /\ ~results[k].finished
             /\ results[k].laps = cars[i].lapTimes
    /\ \A j, k \in 1..Len(results) :
         (results[j].finished /\ ~results[k].finished) => j < k
    /\ \A p \in hist.finished :
         \E k \in 1..Len(results) :
           /\ results[k].playerId = p /\ results[k].finished
           /\ Len(results[k].laps) >= settings.lapCount
           /\ SumSeq(results[k].laps) = results[k].totalTime

\* a race ended with one car finished and another one not
C14_Witness ==
  /\ Emitted("race_finished") # {}
  /\ \E j, k \in 1..Len(results) : results[j].finished /\ ~results[k].finished

\* C15: a lap is credited to a car only if, since the lap credited to it
\* before, a tick has seen the car outside the finish radius; a car that
\* stays on the finish element is credited one lap at most.
C15_RisingEdge ==
  [][\A p \in Players :
       (/\ HasCar(physCars, p) /\ HasCar(physCars', p)
        /\ GetCar(physCars', p).lap > GetCar(physCars, p).lap) =>
         /\ hist.awaySince[p]
         /\ GetCar(physCars', p).lap = GetCar(physCars, p).lap + 1]_vars

\* a car with a lap credited still stands on the finish element a tick later
C15_Witness ==
  \E i \in 1..Len(physCars) :
    /\ physCars[i].lap >= 1 /\ physCars[i].v = 0
    /\ Abs(physCars[i].x - FinishElement) < ElementRadius
    /\ ~hist.awaySince[physCars[i].playerId]

\* C16: in the step that records a lap time for a car, the lap times of the
\* car add up to the race elapsed time of that tick (the first lap counted
\* from the race start), and lap_completed carries the time recorded.
C16_LapTimesSum ==
  [][\A p \in Players :
       (/\ HasCar(cars, p) /\ HasCar(cars', p)
        /\ Len(GetCar(cars', p).lapTimes) > Len(GetCar(cars, p).lapTimes)) =>
         LET lapTimes == GetCar(cars', p).lapTimes
         IN /\ Len(lapTimes) = Len(GetCar(cars, p).lapTimes) + 1
            /\ SumSeq(lapTimes) = gameState'.elapsedTime
            /\ gameState'.elapsedTime = now' - gameState'.raceStartTime
            /\ listening =>
                 \E i \in 1..Len(emitted') :
                   /\ emitted'[i].type = "lap_completed"
                   /\ emitted'[i].playerId = p
                   /\ emitted'[i].a = Len(lapTimes)
                   /\ emitted'[i].b = lapTimes[Len(lapTimes)]]_vars

\* a car has two lap times recorded, the second one shorter than the race
C16_Witness ==
  \E i \in 1..Len(cars) :
    /\ Len(cars[i].lapTimes) = 2
    /\ cars[i].lapTimes[2] < gameState.elapsedTime
    /\ SumSeq(cars[i].lapTimes) = gameState.elapsedTime

\* C17: after every tick the ranks of the cars are a permutation of 1..n,
\* and a car that comes before another one in the order (finished before
\* unfinished; finished cars by ascending finish time; unfinished cars by
\* descending lap, then descending checkpoint) has the smaller rank.
C17_Rankings ==
  [][UpdateGame =>
       LET n == Len(cars')
           Before(a, b) ==
             \/ a.finished /\ ~b.finished
             \/ a.finished /\ b.finished /\ a.finishTime < b.finishTime
             \/ /\ ~a.finished /\ ~b.finished
                /\ \/ a.lap > b.lap
                   \/ a.lap = b.lap /\ a.checkpoint > b.checkpoint
       IN /\ {cars'[i].position_rank : i \in 1..n} = 1..n
          /\ \A i, j \in 1..n :
               Before(cars'[i], cars'[j]) =>
                 cars'[i].position_rank < cars'[j].position_rank]_vars

\* two unfinished cars, the one added second a lap ahead and ranked first
C17_Witness ==
  /\ Len(cars) = 2
  /\ ~cars[1].finished /\ ~cars[2].finished
  /\ cars[2].lap > cars[1].lap
  /\ cars[2].position_rank = 1 /\ cars[1].position_rank = 2

C19_Reconciled ==
  [][\A s \in 0..MaxClientInputs :
       UpdateFromServer(s) =>
         /\ client'.lastConfirmedSequence = s
         /\ \A i \in 1..Len(client'.pendingInputs) :
              client'.pendingInputs[i].sequence > s]_vars

\* the client has reconciled against sequence 2 and its FIFO is full, with
\* input 3 at its head
C19_Witness ==
  /\ client.lastConfirmedSequence = 2
  /\ Len(client.pendingInputs) = MAX_PENDING_INPUTS
  /\ client.pendingInputs[1].sequence = 3

\* C20: when a player mapped to one room joins the other room with success,
\* after the join the player is in the players of the new room and mapped
\* to it, and is neither in the players of the old room nor mapped to it.
C20_OneRoom ==
  [][\A p \in Players :
       /\ (other.registered /\ p \in other.mapped /\ JoinRoom(p) /\ reply' = NoReply) =>
            /\ \E i \in 1..Len(players') : players'[i].id = p
            /\ p \in playerRooms'
            /\ \A i \in 1..Len(other'.players) : other'.players[i] # p
            /\ p \notin other'.mapped
       /\ (registered /\ p \in playerRooms /\ JoinOther(p) /\ reply' = NoReply) =>
            /\ \E i \in 1..Len(other'.players) : other'.players[i] = p
            /\ p \in other'.mapped
            /\ \A i \in 1..Len(players') : players'[i].id # p
            /\ ~HasCar(cars', p) /\ ~HasCar(physCars', p)
            /\ p \notin playerRooms']_vars

\* p2 has moved from its own room, removed thereby, to the room of p1
C20_Witness ==
  /\ Len(players) = 2 /\ playerRooms = Players /\ registered
  /\ ~other.registered /\ other.players = <<>> /\ other.mapped = {}

\* C21: a join addressed by the id of a private room fails with a reason
\* and does not add the player to the room.
C21_PrivateJoinById ==
  [][\A p \in Players :
       (settings.isPrivate /\ ~HasPlayer(p) /\ JoinRoomById(p)) =>
         /\ reply' = "JOIN_FAILED"
         /\ players' = players]_vars

\* C22: a join of a room that has maxPlayers players, or that is racing
\* without allowMidRaceJoin, fails with a reason and leaves the players and
\* the player mappings of both rooms as they were; no room ever has more
\* than maxPlayers players.
C22_FailedJoin ==
  /\ [](Len(players) <= settings.maxPlayers /\ Len(other.players) <= settings.maxPlayers)
  /\ [][\A p \in Players :
          LET same == /\ players' = players /\ playerRooms' = playerRooms
                      /\ cars' = cars /\ registered' = registered
                      /\ other' = other
          IN /\ (/\ JoinRoom(p)
                 /\ \/ Len(players) >= settings.maxPlayers
                    \/ state = "racing" /\ ~settings.allowMidRaceJoin) =>
                  (reply' = "JOIN_FAILED" /\ same)
             /\ (JoinOther(p) /\ Len(other.players) >= settings.maxPlayers) =>
                  (reply' = "JOIN_FAILED" /\ same)]_vars

\* the join of a player of the other room was refused by the racing room
\* of p1, which has room left, and the player is still in the other room
C22_Witness ==
  /\ reply = "JOIN_FAILED" /\ state = "racing" /\ ~settings.allowMidRaceJoin
  /\ Len(players) < settings.maxPlayers
  /\ other.registered /\ other.players = <<"p2">> /\ "p2" \in other.mapped

\* C23: the sweeper removes a room only when it is empty or waiting, and
\* then drops the player mappings of the room; once the room is removed, no
\* player mapping points to it.
C23_RemovedRoom ==
  /\ [](~registered => playerRooms = {})
  /\ [][CleanupIdleRooms =>
          /\ Len(players) = 0 \/ state = "waiting"
          /\ ~registered' /\ playerRooms' = {}]_vars

\* C24: a disconnected player stays in the players of its room, marked
\* disconnected, as long as its disconnect timeout is pending; when the
\* timeout fires the player is removed and player_left is emitted to the
\* members that remain.
C24_Eviction ==
  [][\A p \in Players :
       /\ (Disconnect(p) /\ registered /\ p \in playerRooms /\ HasPlayer(p)) =>
            /\ p \in sessions'.evictions
            /\ \E i \in 1..Len(players') :
                 players'[i].id = p /\ ~players'[i].isConnected
       /\ (/\ p \in sessions.evictions /\ p \in sessions'.evictions
           /\ registered /\ registered' /\ HasPlayer(p)) =>
            (\E i \in 1..Len(players') : players'[i].id = p) /\ p \in playerRooms'
       /\ (EvictionTimeout(p) /\ registered /\ HasPlayer(p)) =>
            /\ \A i \in 1..Len(players') : players'[i].id # p
            /\ p \notin playerRooms'
            /\ Len(players') > 0 =>
                 \E i \in 1..Len(emitted') :
                   emitted'[i].type = "player_left" /\ emitted'[i].playerId = p]_vars

\* p1 was evicted during the race and p2, now the host, has been told
C24_Witness ==
  /\ "p1" \in sessions.gone /\ "p1" \notin sessions.evictions
  /\ state = "racing" /\ Len(players) = 1 /\ players[1].id = "p2"
  /\ Len(emitted) = 2 /\ emitted[1].type = "player_left" /\ emitted[1].playerId = "p1"

\* C25: a player whose client has connected again before the disconnect
\* timeout fires is not removed when the timeout fires.
C25_ReconnectKeepsPlayer ==
  [][\A p \in Players :
       (EvictionTimeout(p) /\ p \in sessions.reconnected /\ HasPlayer(p)) =>
         \E i \in 1..Len(players') : players'[i].id = p]_vars

\* C26: every room of the manager has a code of ROOM_CODE_LENGTH characters
\* of the alphabet without confusing characters, no two rooms have the same
\* code, and a room is found by its id exactly when it is found by its
\* code, typed in either case.
C26_CodesAndIndexes ==
  /\ \A roomId \in DOMAIN manager.rooms :
       LET code == manager.rooms[roomId].code
       IN /\ Len(code) = ROOM_CODE_LENGTH
          /\ \A i \in 1..Len(code) :
               code[i] \in RoomCodeChars /\ code[i] \notin ConfusingChars
          /\ \A r2 \in DOMAIN manager.rooms :
               r2 # roomId => manager.rooms[r2].code # code
          /\ findRoom(manager, roomId) = roomId
          /\ findRoom(manager, code) = roomId
  /\ \A code \in DOMAIN manager.roomsByCode :
       /\ manager.roomsByCode[code] \in DOMAIN manager.rooms
       /\ manager.rooms[manager.roomsByCode[code]].code = code
  /\ \A typed \in [1..ROOM_CODE_LENGTH -> {"a", "b", "2"}] :
       findRoom(manager, typed) = findRoom(manager, ToUpperCase(typed))

\* after a room was removed two rooms are left, and the one created last
\* has the code that the removed room had
C26_Witness ==
  /\ manager.generated = 3
  /\ DOMAIN manager.rooms = {RoomIds[2], RoomIds[3]}
  /\ manager.rooms[RoomIds[3]].code = <<"A", "B">>
  /\ findRoom(manager, <<"a", "b">>) = RoomIds[3]

\* C27: createRoom creates a room on the requested track when that track
\* exists, and on the default track when it does not; it does not fail.
C27_TrackFallback ==
  [][\A requested \in RequestedTracks :
       CreateRoom(requested) =>
         /\ manager'.created # NoRoom
         /\ manager'.rooms[manager'.created].trackId =
              IF TrackExists(requested) THEN requested ELSE getDefaultTrackId]_vars

\* the entries of a list of best lap times are in ascending order of time
SortedByTime(list) ==
  \A i \in 1..Len(list), j \in 1..Len(list) : i < j => list[i].time <= list[j].time
\* no two entries of a list have nicknames that are equal without case
OnePerNickname(list) ==
  \A i \in 1..Len(list), j \in 1..Len(list) :
    i # j => ToLowerCase(list[i].nickname) # ToLowerCase(list[j].nickname)
\* the leaderboards that exist: cached, stored, and held by a call
Leaderboards ==
  {leaderboard.cache, leaderboard.storage}
    \cup {call.own : call \in {c \in leaderboard.calls : c.stage = "got"}}
\* the times that a list has for a nickname, without case
TimesOf(list, nickname) ==
  {list[i].time : i \in {j \in 1..Len(list) :
                           ToLowerCase(list[j].nickname) = ToLowerCase(nickname)}}

\* a submission of a time for a nickname made the list after from the list
\* before: unchanged when the nickname had an entry that was not slower, and
\* otherwise the nickname has no entry but one with the submitted time
Replaces(before, after, nickname, time) ==
  LET prior == TimesOf(before, nickname)
  IN /\ (\E t \in prior : t <= time) => after = before
     /\ (\A t \in prior : t > time) => TimesOf(after, nickname) \subseteq {time}
     /\ (prior # {} /\ \A t \in prior : t > time) => TimesOf(after, nickname) = {time}
     /\ \A i \in 1..Len(after) :
          \/ after[i] = [nickname |-> nickname, time |-> time]
          \/ \E j \in 1..Len(before) : before[j] = after[i]

\* C28: after any submissions every lap leaderboard is sorted ascending by
\* time, has at most one entry per nickname without case and at most
\* MAX_LEADERBOARD_ENTRIES entries; a submission replaces the entry of its
\* nickname only when it is faster, and leaves the list as it was when it
\* is not.
C28_LapLeaderboard ==
  /\ [](\A list \in Leaderboards :
         /\ SortedByTime(list)
         /\ OnePerNickname(list)
         /\ Len(list) <= MAX_LEADERBOARD_ENTRIES)
  /\ [][/\ \A nickname \in Nicknames, time \in LapTimes :
            SubmitCached(nickname, time) =>
              Replaces(leaderboard.cache, leaderboard'.cache, nickname, time)
        /\ \A call \in leaderboard.calls :
            SubmitRead(call) =>
              /\ Replaces(boardOf(call),
                          submitLapTime(boardOf(call), call.nickname, call.time).list,
                          call.nickname, call.time)
              /\ call.isCached =>
                   Replaces(leaderboard.cache, leaderboard'.cache,
                            call.nickname, call.time)]_vars

\* a full leaderboard in which a nickname written in another case took the
\* place of its slower entry
C28_Witness ==
  /\ leaderboard.last.full
  /\ leaderboard.last.replaced
  /\ leaderboard.last.otherCase
  /\ leaderboard.cached
  /\ leaderboard.cache[1] = [nickname |-> <<"a", "l">>, time |-> 1]
  /\ Len(leaderboard.cache) = MAX_LEADERBOARD_ENTRIES
  /\ \A i \in 1..Len(leaderboard.cache) : leaderboard.cache[i].nickname # <<"A", "l">>

\* C29: for the same car state and the same input record, one step of the
\* client predictor and one step of the server give the same velocity,
\* angular velocity, rotation and position, whatever the input fields and
\* the nitro amount are.
C29_SameStep ==
  compared.stepped => compared.predicted = compared.integrated

\* C30: a player finishes at most once in a race: finishedPlayers and the
\* results have at most one entry for a player, and the positions of the
\* finished entries are distinct.
C30_FinishOnce ==
  /\ \A i \in 1..Len(gameState.finishedPlayers) :
       \A j \in 1..Len(gameState.finishedPlayers) :
         i # j => gameState.finishedPlayers[i] # gameState.finishedPlayers[j]
  /\ \A i \in 1..Len(results) : \A j \in 1..Len(results) :
       i # j =>
         /\ results[i].playerId # results[j].playerId
         /\ (results[i].finished /\ results[j].finished) =>
              results[i].position # results[j].position

\* C31: whenever joinRoom reports success the room is still registered
\* in the manager and not shut down, and the player is a member of it and
\* mapped to it, also when the player was the only member of that room.
C31_JoinedRoomIsLive ==
  [][\A p \in Players :
       (JoinRoom(p) /\ reply' = NoReply) =>
         /\ registered'
         /\ listening'
         /\ p \in playerRooms'
         /\ \E i \in 1..Len(players') : players'[i].id = p]_vars

\* C32: a player is a member of at most one registered room, and a
\* registered room has a player exactly when the player is mapped to it.
C32_OneRoomPerPlayer ==
  \A p \in Players :
    /\ ~(/\ registered /\ HasPlayer(p)
          /\ other.registered /\ \E i \in 1..Len(other.players) : other.players[i] = p)
    /\ registered => (p \in playerRooms <=> HasPlayer(p))
    /\ other.registered =>
         (p \in other.mapped <=> \E i \in 1..Len(other.players) : other.players[i] = p)

\* C33: a session that left the room by joining or creating another room
\* gets no broadcast of the room afterwards: while its socket lingers in
\* the channel of the room, the room broadcasts nothing.
C33_NoBroadcastAfterLeaving ==
  [][\A p \in Players :
       (p \in other.lingering /\ p \in other'.lingering) =>
         \A i \in 1..Len(emitted') : emitted'[i].type = "player_joined"]_vars

\* C34: a room that was reset to the lobby, and so is waiting, emits no
\* countdown message and does not enter racing before startGame succeeds
\* again.
C34_ResetCancelsCountdown ==
  [][state = "waiting" =>
       /\ state' # "racing"
       /\ \A i \in 1..Len(emitted') : emitted'[i].type # "countdown"]_vars

\* C35: a room that has reached results and still has players can return
\* to waiting: some step of the server takes it there with the cars and the
\* results cleared and every player un-ready.
C35_ResultsNotTerminal ==
  (registered /\ state = "results" /\ Len(players) > 0) =>
    ENABLED (/\ Next
             /\ state' = "waiting"
             /\ cars' = <<>>
             /\ results' = <<>>
             /\ \A i \in 1..Len(players') : ~players'[i].isReady)

\* C36: for every storage key at most one call of write is between taking
\* the lock and releasing it, the temp file holds the data of the call that
\* is about to rename it, and a rename puts the renaming call's own data in
\* the file.
C36_OneWriterPerKey ==
  /\ [](\A k \in StorageKeys :
         /\ Cardinality(InCriticalSection(k)) <= 1
         /\ \A w \in Writers :
              (storage.key[w] = k /\ storage.pc[w] = "written") => storage.temp[k] = w)
  /\ [][\A w \in Writers : Rename(w) => storage'.file[storage.key[w]] = w]_vars

\* C36 witness: one call is about to rename its temp file while two other
\* calls of write to the same key wait, and the file holds the data of an
\* earlier write by one of them
C36_Witness ==
  \E w \in Writers, k \in StorageKeys :
    /\ storage.key[w] = k /\ storage.pc[w] = "written"
    /\ \A x \in Writers \ {w} :
         storage.key[x] = k /\ storage.pc[x] = "waiting"
    /\ storage.file[k] \in Writers \ {w}

\* the list holds an entry of the nickname with the time
HoldsEntry(list, nickname, time) ==
  \E i \in 1..Len(list) : list[i].nickname = nickname /\ list[i].time = time

\* C37: every accepted submission is reflected: when submitLapTime inserts
\* an entry within the limit of the list, the cached leaderboard and the
\* stored file both hold it afterwards, and once no call is in flight the
\* cache and the file hold the same entries.
C37_NoSubmissionLost ==
  /\ []((leaderboard.calls = {} /\ leaderboard.cached /\ leaderboard.stored) =>
          leaderboard.cache = leaderboard.storage)
  /\ [][\A call \in leaderboard.calls :
          (/\ SubmitRead(call)
           /\ submitLapTime(boardOf(call), call.nickname, call.time).written
           /\ HoldsEntry(submitLapTime(boardOf(call), call.nickname, call.time).list,
                         call.nickname, call.time)) =>
            /\ HoldsEntry(leaderboard'.cache, call.nickname, call.time)
            /\ HoldsEntry(leaderboard'.storage, call.nickname, call.time)]_vars

\* C38: on every local input event of a racing client the input is the
\* newest entry of the pending FIFO, the FIFO holds at most
\* MAX_PENDING_INPUTS entries, the input is the current held input, and
\* exactly one physics step is applied at once.
C38_InputEvent ==
  [][\A accelerate \in BOOLEAN :
       UpdateInput(accelerate, TRUE) =>
         /\ Len(client'.pendingInputs) \in 1..MAX_PENDING_INPUTS
         /\ client'.pendingInputs[Len(client'.pendingInputs)].sequence = client'.inputSequence
         /\ client'.currentInput = client'.inputSequence
         /\ client'.steps = client.steps + 1]_vars

\* C39: whenever the room has a player, hostId is the id of one of its
\* players, and in a registered waiting room with a player the host is
\* allowed to start the game: start_game of the host is routed to this room.
C39_HostCanStart ==
  /\ Len(players) > 0 => HasPlayer(hostId)
  /\ (registered /\ state = "waiting" /\ Len(players) > 0) => hostId \in playerRooms

\* C40: every tick of a car without an input applies drag and rolling
\* resistance, as a tick with an input that presses nothing does, and the
\* speed of the car does not increase.
C40_CoastsWithDrag ==
  [][TickWithoutInput =>
       /\ compared'.integrated.vx =
            updateCarAndStep(compared.integrated, NotCompared.input, 0).vx
       /\ compared'.integrated.vy =
            updateCarAndStep(compared.integrated, NotCompared.input, 0).vy
       /\ vec2Length(compared'.integrated.vx, compared'.integrated.vy)
            <= vec2Length(compared.integrated.vx, compared.integrated.vy)]_vars

====
